---- MODULE Spec2Model ----
(***************************************************************************)
(* A model of these parts of the provider:                                 *)
(*   - the generated tag helpers (internal/service/*/tags_gen.go):         *)
(*     UpdateTags, ListTags, GetTag, Tags, KeyValueTags;                    *)
(*   - the aws_ecs_services data source                                    *)
(*     (internal/service/ecs/services_data_source.go);                     *)
(*   - the retry handlers ConfigureProvider appends to the SDK clients     *)
(*     (internal/conns/config.go), and ConfigureProvider's own steps;      *)
(*   - the API Gateway client certificate Read and account Update          *)
(*     (internal/service/apigateway).                                      *)
(* Each part has its own specification; the variables of the other parts   *)
(* stay at their initial values.                                           *)
(***************************************************************************)
EXTENDS Integers, Sequences, FiniteSets, TLC

VARIABLES
    \* ---- tags_gen.go: UpdateTags ----
    remote,        \* the tags the remote resource carries: key -> value
    pc,            \* position of the UpdateTags call: idle, untag, tag, done
    oldTags,       \* tftags.New(ctx, oldTagsMap) of the current call
    newTags,       \* tftags.New(ctx, newTagsMap) of the current call
    requests,      \* the requests the current call has sent, in order
    err,           \* the error the current call returned (Nil: nil)
    calls,         \* number of UpdateTags calls started so far
    inSync,        \* the remote tags equalled oldTags when the call started
    chained,       \* the call's old map is the new map of the previous, successful call
    \* ---- ecs/tags_gen.go: GetTag / ListTags ----
    gt,            \* the last GetTag call: its inputs and what it returned
    \* ---- ecs/services_data_source.go ----
    ds,            \* the last Read of the data source
    \* ---- conns/config.go: retry handlers ----
    rq,            \* the request in flight on one of the customized clients
    \* ---- conns/config.go: ConfigureProvider ----
    cp,            \* the client, and the ConfigureProvider call in progress on it
    \* ---- apigateway: client certificate and account resources ----
    cc,            \* the client certificate resource data and its last Read
    ac,            \* the account resource data and its last Create/Update
    \* ---- tags_gen.go: Tags / KeyValueTags ----
    rt             \* the last conversion between a tag set and a service tag list

vars == <<remote, pc, oldTags, newTags, requests, err, calls, inSync, chained, gt, ds, rq, cp, cc, ac, rt>>

tagVars == <<remote, pc, oldTags, newTags, requests, err, calls, inSync, chained>>

\* Go's nil error.
Nil == [what |-> "nil"]

\* Number of UpdateTags calls in one run.
MaxCalls == 2

(***************************************************************************)
(* Strings that the code inspects (prefix, substring) are sequences of      *)
(* tokens; the other strings are opaque.                                    *)
(***************************************************************************)
HasPrefix(s, prefix) ==
    /\ Len(s) >= Len(prefix)
    /\ SubSeq(s, 1, Len(prefix)) = prefix

Contains(s, substr) ==
    \E i \in 0..(Len(s) - Len(substr)) : SubSeq(s, i + 1, i + Len(substr)) = substr

\* ------------------------------------------------------------------------
\* Tag sets
\* ------------------------------------------------------------------------
AwsTagKeyPrefix == <<"aws:">>

TagKeys == { <<"Name">>, <<"Env">>, <<"aws:", "stack">> }

TagValues == { "v1", "v2" }

\* System tags carry one value: they are not the subject of any claim.
ValuesOf(k) == IF HasPrefix(k, AwsTagKeyPrefix) THEN { "v1" } ELSE TagValues

\* Every tag map over TagKeys.
AllTagMaps ==
    UNION { { f \in [D -> TagValues] : \A k \in D : f[k] \in ValuesOf(k) } : D \in SUBSET TagKeys }

EmptyTags == [k \in {} |-> "v1"]

\* tftags.New on a map of strings: one tag per key of the map.
New(m) == [k \in DOMAIN m |-> m[k]]

\* KeyValueTags.Removed: the tags of `tags` whose key is not in newT.
Removed(tags, newT) ==
    [k \in { x \in DOMAIN tags : x \notin DOMAIN newT } |-> tags[k]]

\* KeyValueTags.Updated: the tags of newT that are new or whose value differs.
Updated(tags, newT) ==
    [k \in { x \in DOMAIN newT : x \notin DOMAIN tags \/ tags[x] # newT[x] } |-> newT[k]]

\* KeyValueTags.IgnoreAWS: drops the keys with the "aws:" prefix.
IgnoreAWS(tags) ==
    [k \in { x \in DOMAIN tags : ~HasPrefix(x, AwsTagKeyPrefix) } |-> tags[k]]

\* KeyValueTags.Keys: the keys (a slice in map order; the order is not observable
\* in an untag request, so a set).
Keys(tags) == DOMAIN tags

\* A tag value the service left out: a nil *string.
NilString == "(nil)"

\* KeyValueTags.Map: the tags as a map of strings; a tag without a value has
\* the empty string.
Map(tags) == [k \in DOMAIN tags |-> IF tags[k] = NilString THEN "" ELSE tags[k]]

NoAWSKey(tags) == \A k \in DOMAIN tags : ~HasPrefix(k, AwsTagKeyPrefix)

\* ------------------------------------------------------------------------
\* []*SERVICE.Tag handling
\* ------------------------------------------------------------------------
\* Every ordering of a finite set, as sequences without repetition.
Orderings(S) ==
    { s \in [1..Cardinality(S) -> S] : \A i, j \in 1..Cardinality(S) : i # j => s[i] # s[j] }

\* Tags: one service tag per key of tags.Map(), appended in the order `order`
\* a Go map iteration produced.
Tags(tags, order) ==
    [i \in 1..Len(order) |-> [Key |-> order[i], Value |-> Map(tags)[order[i]]]]

\* A loop that keeps the value a key already has.
RECURSIVE KeyValueTagsUpTo_FirstWins(_, _)
KeyValueTagsUpTo_FirstWins(tags, n) ==
    IF n = 0 THEN [k \in {} |-> "v1"]
    ELSE LET m == KeyValueTagsUpTo_FirstWins(tags, n - 1)
             t == tags[n]
         IN  [k \in DOMAIN m \cup { t.Key } |-> IF k \in DOMAIN m THEN m[k] ELSE t.Value]

\* The map after the first n tags of the list have been stored: m[Key] = Value.
RECURSIVE KeyValueTagsUpTo(_, _)
KeyValueTagsUpTo(tags, n) ==
    IF n = 0 THEN EmptyTags
    ELSE LET m == KeyValueTagsUpTo(tags, n - 1)
             t == tags[n]
         IN  [k \in DOMAIN m \cup { t.Key } |-> IF k = t.Key THEN t.Value ELSE m[k]]

\* KeyValueTags: the tag set of a service tag list.
KeyValueTags(tags) == New(KeyValueTagsUpTo(tags, Len(tags)))

\* ------------------------------------------------------------------------
\* The remote tagging API
\* ------------------------------------------------------------------------
Identifier == "arn:resource"

ApiErrors == { "AccessDeniedException", "ThrottlingException" }

\* UntagResource: removes the keys of the request.
RemoteUntag(r, tagKeys) == [k \in DOMAIN r \ tagKeys |-> r[k]]

\* TagResource: stores every tag of the request, adding or overwriting.
RemoteTag(r, tagList) ==
    LET m == KeyValueTagsUpTo(tagList, Len(tagList))
    IN  [k \in DOMAIN r \cup DOMAIN m |-> IF k \in DOMAIN m THEN m[k] ELSE r[k]]

\* ------------------------------------------------------------------------
\* UpdateTags
\* ------------------------------------------------------------------------
\* A message that leaves the identifier out.
Errorf_NoIdentifier(what, identifier, cause) == [what |-> what, identifier |-> "", wraps |-> cause]

\* fmt.Errorf("untagging resource (%s): %w", identifier, err)
Errorf(what, identifier, cause) == [what |-> what, identifier |-> identifier, wraps |-> cause]

\* A slip that swaps receiver and argument: the tags the new map adds.
RemovedTags_Swapped == Removed(newTags, oldTags)

\* removedTags := oldTags.Removed(newTags)
RemovedTags == Removed(oldTags, newTags)

\* A slip that sends the whole new map whenever it is not empty.
UpdatedTags_WholeNewMap == newTags

\* updatedTags := oldTags.Updated(newTags)
UpdatedTags == Updated(oldTags, newTags)

\* Entry: oldTags, newTags := tftags.New(oldTagsMap), tftags.New(newTagsMap).
UpdateTags_Call ==
    /\ pc = "idle"
    /\ calls < MaxCalls
    /\ \E o \in AllTagMaps, n \in AllTagMaps :
          /\ oldTags' = New(o)
          /\ newTags' = New(n)
          /\ inSync' = (remote = New(o))
          /\ chained' = (calls > 0 /\ err = Nil /\ New(o) = newTags)
    /\ requests' = <<>>
    /\ err' = Nil
    /\ calls' = calls + 1
    /\ pc' = "untag"
    /\ UNCHANGED <<remote, gt, ds, rq, cp, cc, ac, rt>>

\* if removedTags := oldTags.Removed(newTags); len(removedTags) > 0 { ... }
\* No removed tag: nothing is sent.
UpdateTags_UntagSkip ==
    /\ pc = "untag"
    /\ Cardinality(DOMAIN RemovedTags) = 0
    /\ pc' = "tag"
    /\ UNCHANGED <<remote, oldTags, newTags, requests, err, calls, inSync, chained, gt, ds, rq, cp, cc, ac, rt>>

UntagInput == [op |-> "UntagResource", ResourceArn |-> Identifier,
               TagKeys |-> Keys(IgnoreAWS(RemovedTags))]

\* The untag request succeeds.
UpdateTags_UntagOk ==
    /\ pc = "untag"
    /\ Cardinality(DOMAIN RemovedTags) > 0
    /\ requests' = Append(requests, UntagInput)
    /\ remote' = RemoteUntag(remote, UntagInput.TagKeys)
    /\ pc' = "tag"
    /\ UNCHANGED <<oldTags, newTags, err, calls, inSync, chained, gt, ds, rq, cp, cc, ac, rt>>

\* The untag request fails: UpdateTags returns the wrapped error.
UpdateTags_UntagFail ==
    /\ pc = "untag"
    /\ Cardinality(DOMAIN RemovedTags) > 0
    /\ requests' = Append(requests, UntagInput)
    /\ \E cause \in ApiErrors : err' = Errorf("untagging resource", Identifier, cause)
    /\ pc' = "done"
    /\ UNCHANGED <<remote, oldTags, newTags, calls, inSync, chained, gt, ds, rq, cp, cc, ac, rt>>

\* if updatedTags := oldTags.Updated(newTags); len(updatedTags) > 0 { ... }
UpdateTags_TagSkip ==
    /\ pc = "tag"
    /\ Cardinality(DOMAIN UpdatedTags) = 0
    /\ pc' = "done"
    /\ UNCHANGED <<remote, oldTags, newTags, requests, err, calls, inSync, chained, gt, ds, rq, cp, cc, ac, rt>>

TagInput(order) == [op |-> "TagResource", ResourceArn |-> Identifier,
                    Tags |-> Tags(IgnoreAWS(UpdatedTags), order)]

UpdateTags_TagOk ==
    /\ pc = "tag"
    /\ Cardinality(DOMAIN UpdatedTags) > 0
    /\ \E order \in Orderings(DOMAIN IgnoreAWS(UpdatedTags)) :
          /\ requests' = Append(requests, TagInput(order))
          /\ remote' = RemoteTag(remote, TagInput(order).Tags)
    /\ pc' = "done"
    /\ UNCHANGED <<oldTags, newTags, err, calls, inSync, chained, gt, ds, rq, cp, cc, ac, rt>>

UpdateTags_TagFail ==
    /\ pc = "tag"
    /\ Cardinality(DOMAIN UpdatedTags) > 0
    /\ \E order \in Orderings(DOMAIN IgnoreAWS(UpdatedTags)) :
          requests' = Append(requests, TagInput(order))
    /\ \E cause \in ApiErrors : err' = Errorf("tagging resource", Identifier, cause)
    /\ pc' = "done"
    /\ UNCHANGED <<remote, oldTags, newTags, calls, inSync, chained, gt, ds, rq, cp, cc, ac, rt>>

\* UpdateTags has returned: its locals are gone; the caller keeps the map it
\* applied and the error it got, and may call again.
UpdateTags_Return ==
    /\ pc = "done"
    /\ calls < MaxCalls
    /\ pc' = "idle"
    /\ oldTags' = EmptyTags
    /\ requests' = <<>>
    /\ inSync' = FALSE
    /\ chained' = FALSE
    /\ UNCHANGED <<remote, newTags, err, calls, gt, ds, rq, cp, cc, ac, rt>>

\* Before the first call: the remote resource carries any tags; nothing else
\* of the provider is in use.
InitTags ==
    /\ remote \in AllTagMaps
    /\ pc = "idle"
    /\ oldTags = EmptyTags
    /\ newTags = EmptyTags
    /\ requests = <<>>
    /\ err = Nil
    /\ calls = 0
    /\ inSync = FALSE
    /\ chained = FALSE
    /\ gt = [pc |-> "idle"]
    /\ ds = [pc |-> "idle"]
    /\ rq = [pc |-> "idle"]
    /\ cp = [pc |-> "idle", Session |-> Nil, calls |-> 0]
    /\ cc = [pc |-> "idle"]
    /\ ac = [pc |-> "idle"]
    /\ rt = [pc |-> "idle"]

TagsNext ==
    \/ UpdateTags_Call
    \/ UpdateTags_UntagSkip
    \/ UpdateTags_UntagOk
    \/ UpdateTags_UntagFail
    \/ UpdateTags_TagSkip
    \/ UpdateTags_TagOk
    \/ UpdateTags_TagFail
    \/ UpdateTags_Return

SpecTags == InitTags /\ [][TagsNext]_vars

\* ------------------------------------------------------------------------
\* AWS errors and the tfawserr predicates
\* ------------------------------------------------------------------------
\* An awserr.Error: a code and a message (a sequence of tokens).
AwsErr(code, message) == [what |-> "awserr", code |-> code, message |-> message]

\* tfawserr.ErrCodeEquals: the error is an AWS error with this code. False for nil.
ErrCodeEquals(e, code) == e # Nil /\ e.what = "awserr" /\ e.code = code

\* tfawserr.ErrMessageContains: the error is an AWS error with this code whose
\* message contains the text. False for nil.
ErrMessageContains(e, code, message) ==
    e # Nil /\ e.what = "awserr" /\ e.code = code /\ Contains(e.message, message)

\* ------------------------------------------------------------------------
\* ecs: ListTags and GetTag
\* ------------------------------------------------------------------------
\* Longest tag list ListTagsForResource returns.
MaxTagListLen == 2

\* tftags.NewEmptyResultError / resource.NotFoundError: both are not-found errors.
IsNotFound(e) == e # Nil /\ e.what \in { "EmptyResultError", "NotFoundError" }

InactiveClusterMessage ==
    <<"The specified cluster is inactive. Specify an active cluster and try again.">>

\* What ListTagsForResourceWithContext can answer with.
ListTagsErrors ==
    { AwsErr("InvalidParameterException", InactiveClusterMessage),
      AwsErr("InvalidParameterException", <<"Invalid identifier">>),
      AwsErr("AccessDeniedException", InactiveClusterMessage) }

ServiceTags == { [Key |-> k, Value |-> v] : k \in TagKeys, v \in { "v1", NilString } }

TagLists == UNION { [1..n -> ServiceTags] : n \in 0..MaxTagListLen }

ListTagsOutputs ==
    { [Tags |-> l, err |-> Nil] : l \in TagLists }
        \cup { [Tags |-> <<>>, err |-> e] : e \in ListTagsErrors }

\* KeyValueTags.KeyExists
KeyExists(tags, key) == key \in DOMAIN tags

\* KeyValueTags.KeyValue: the value of the key, nil when it has none.
KeyValue(tags, key) == IF key \in DOMAIN tags THEN tags[key] ELSE NilString

\* ListTags, given what the API call answered: (tags, err).
ListTags(output) ==
    IF ErrMessageContains(output.err, "InvalidParameterException", InactiveClusterMessage)
    THEN [tags |-> Nil, err |-> [what |-> "NotFoundError", LastError |-> output.err]]
    ELSE IF output.err # Nil
    THEN [tags |-> New(EmptyTags), err |-> output.err]
    ELSE [tags |-> KeyValueTags(output.Tags), err |-> Nil]

\* A slip that drops the KeyExists test.
GetTag_NoExistsCheck(output, key) ==
    LET l == ListTags(output)
    IN  IF l.err # Nil THEN [value |-> NilString, err |-> l.err]
        ELSE [value |-> KeyValue(l.tags, key), err |-> Nil]

\* GetTag, given what the API call answered: (value, err).
GetTag(output, key) ==
    LET l == ListTags(output)
    IN  IF l.err # Nil THEN [value |-> NilString, err |-> l.err]
        ELSE IF ~KeyExists(l.tags, key)
        THEN [value |-> NilString, err |-> [what |-> "EmptyResultError"]]
        ELSE [value |-> KeyValue(l.tags, key), err |-> Nil]

\* One GetTag call, from entry to return.
GetTag_Call ==
    /\ gt.pc = "idle"
    /\ \E key \in TagKeys, output \in ListTagsOutputs :
          gt' = [pc |-> "done", key |-> key, output |-> output,
                 result |-> GetTag(output, key)]
    /\ UNCHANGED <<tagVars, ds, rq, cp, cc, ac, rt>>

GetTag_Return ==
    /\ gt.pc = "done"
    /\ gt' = [pc |-> "idle"]
    /\ UNCHANGED <<tagVars, ds, rq, cp, cc, ac, rt>>

GetTagNext == GetTag_Call \/ GetTag_Return

\* No GetTag call has been made; nothing else of the provider is in use.
InitGetTag ==
    /\ remote = EmptyTags
    /\ pc = "idle"
    /\ oldTags = EmptyTags
    /\ newTags = EmptyTags
    /\ requests = <<>>
    /\ err = Nil
    /\ calls = 0
    /\ inSync = FALSE
    /\ chained = FALSE
    /\ gt = [pc |-> "idle"]
    /\ ds = [pc |-> "idle"]
    /\ rq = [pc |-> "idle"]
    /\ cp = [pc |-> "idle", Session |-> Nil, calls |-> 0]
    /\ cc = [pc |-> "idle"]
    /\ ac = [pc |-> "idle"]
    /\ rt = [pc |-> "idle"]

SpecGetTag == InitGetTag /\ [][GetTagNext]_vars

\* The positions of the list whose tag has the key.
Occurrences(list, key) == { i \in 1..Len(list) : list[i].Key = key }

\* C5: ecs GetTag. A failed listing gives no value and the error of the listing
\* (the not-found error wrapping the API error for an inactive cluster, the API
\* error itself otherwise); a listing without the key gives no value and a
\* not-found error; a listing with the key gives the key's value and nil.
C5_GetTag ==
    gt.pc = "done" =>
        LET out == gt.output
            occ == Occurrences(out.Tags, gt.key)
            inactive == /\ out.err # Nil
                        /\ out.err.code = "InvalidParameterException"
                        /\ out.err.message = InactiveClusterMessage
        IN  /\ (out.err # Nil /\ inactive) =>
                  /\ gt.result.value = NilString
                  /\ gt.result.err.what = "NotFoundError"
                  /\ gt.result.err.LastError = out.err
            /\ (out.err # Nil /\ ~inactive) =>
                  /\ gt.result.value = NilString
                  /\ gt.result.err = out.err
            /\ (out.err = Nil /\ occ = {}) =>
                  /\ gt.result.value = NilString
                  /\ IsNotFound(gt.result.err)
            /\ (out.err = Nil /\ occ # {}) =>
                  /\ gt.result.err = Nil
                  /\ \E i \in occ : /\ \A j \in occ : j <= i
                                    /\ gt.result.value = out.Tags[i].Value

\* A listing that succeeded and does not hold the key.
C5_Witness ==
    /\ gt.pc = "done"
    /\ gt.output.err = Nil
    /\ Len(gt.output.Tags) = 2
    /\ Occurrences(gt.output.Tags, gt.key) = {}
    /\ IsNotFound(gt.result.err)

\* ------------------------------------------------------------------------
\* ecs: the aws_ecs_services data source
\* ------------------------------------------------------------------------
\* Most services in the cluster, and most pages ListServices splits a result into.
MaxServices == 2
MaxPages == 3

\* A null configuration value, and the zero value of a request field.
Null == "(null)"
Unset == ""

LaunchTypes == { "EC2", "FARGATE", "EXTERNAL" }
SchedulingStrategies == { "REPLICA", "DAEMON" }
ClusterARNs == { "arn:aws:ecs:cluster/main", "main" }

\* What the configuration can hold: cluster_arn is required, the filters optional.
ServicesConfigs ==
    [cluster_arn : ClusterARNs,
     launch_type : LaunchTypes \cup { Null },
     scheduling_strategy : SchedulingStrategies \cup { Null }]

\* The services of a cluster, in the order the API lists them.
ServiceARN(i) == <<"arn:aws:ecs:service", i>>

ClusterServices ==
    UNION { [1..n -> [launchType : { "EC2", "FARGATE" }, schedulingStrategy : SchedulingStrategies]]
            : n \in 0..MaxServices }

\* fwflex.StringFromFramework: nil for a null value, a pointer to the string otherwise.
StringFromFramework(v) == IF v = Null THEN Nil ELSE [what |-> "string", value |-> v]

\* A slip that copies the launch type test to the scheduling strategy.
ListServicesInput_LaunchTypeTwice(data) ==
    [Cluster |-> StringFromFramework(data.cluster_arn),
     LaunchType |-> IF data.launch_type # Null THEN data.launch_type ELSE Unset,
     SchedulingStrategy |-> IF data.launch_type # Null THEN data.scheduling_strategy ELSE Unset]

\* The ListServicesInput Read builds from the configuration.
ListServicesInput(data) ==
    [Cluster |-> StringFromFramework(data.cluster_arn),
     LaunchType |-> IF data.launch_type # Null THEN data.launch_type ELSE Unset,
     SchedulingStrategy |->
        IF data.scheduling_strategy # Null THEN data.scheduling_strategy ELSE Unset]

\* The ListServices API: the ARNs of the cluster's services that pass the filters
\* of the request, in listing order. An unset filter passes every service.
RECURSIVE MatchingUpTo(_, _, _)
MatchingUpTo(services, input, n) ==
    IF n = 0 THEN <<>>
    ELSE LET rest == MatchingUpTo(services, input, n - 1)
             svc == services[n]
             pass == /\ input.LaunchType \in { Unset, svc.launchType }
                     /\ input.SchedulingStrategy \in { Unset, svc.schedulingStrategy }
         IN  IF pass THEN Append(rest, ServiceARN(n)) ELSE rest

Matching(services, input) == MatchingUpTo(services, input, Len(services))

RECURSIVE Concat(_, _)
Concat(pages, n) == IF n = 0 THEN <<>> ELSE Concat(pages, n - 1) \o pages[n]

\* Every way the API can split a result into pages (a page may be empty): the
\* pages end at positions that do not decrease, the last at the end of the result.
Pagings(result) ==
    UNION { { [i \in 1..n |-> SubSeq(result,
                                     (IF i = 1 THEN 0 ELSE cut[i - 1]) + 1,
                                     IF i = n THEN Len(result) ELSE cut[i])]
              : cut \in { c \in [1..(n - 1) -> 0..Len(result)] :
                            \A i \in 1..(n - 2) : c[i] <= c[i + 1] } }
            : n \in 1..MaxPages }

\* A slip that keeps the last page only.
RECURSIVE listServices_LastPageOnly(_, _, _, _)
listServices_LastPageOnly(pages, failAt, i, output) ==
    IF i > Len(pages) THEN [arns |-> output, err |-> Nil]
    ELSE IF i = failAt THEN [arns |-> <<>>, err |-> AwsErr("ServerException", <<"failed">>)]
    ELSE listServices_LastPageOnly(pages, failAt, i + 1, pages[i])

\* listServices: fetches page after page and appends each page's ARNs; the
\* first error ends it with no ARNs. Page i carries a next token iff i < Len(pages);
\* the request for page failAt fails (0: none does).
RECURSIVE listServices(_, _, _, _)
listServices(pages, failAt, i, output) ==
    IF i > Len(pages) THEN [arns |-> output, err |-> Nil]
    ELSE IF i = failAt THEN [arns |-> <<>>, err |-> AwsErr("ServerException", <<"failed">>)]
    ELSE listServices(pages, failAt, i + 1, output \o pages[i])

\* fwflex.FlattenFrameworkStringValueListOfString: one framework string per element.
FlattenFrameworkStringValueListOfString(arns) ==
    [i \in 1..Len(arns) |-> [what |-> "types.String", value |-> arns[i]]]

\* Read, from the configuration to the state or the diagnostic it leaves.
Services_Read ==
    /\ ds.pc = "idle"
    /\ \E data \in ServicesConfigs, services \in ClusterServices :
          LET input == ListServicesInput(data)
          IN  \E pages \in Pagings(Matching(services, input)) :
                \E failAt \in 0..Len(pages) :
                   LET got == listServices(pages, failAt, 1, <<>>)
                   IN  ds' = [pc |-> "done", config |-> data, services |-> services,
                              input |-> input, pages |-> pages, failAt |-> failAt,
                              diag |-> IF got.err # Nil THEN "listing ECS Services" ELSE "",
                              stateSet |-> (got.err = Nil),
                              service_arns |->
                                  IF got.err # Nil THEN <<>>
                                  ELSE FlattenFrameworkStringValueListOfString(got.arns)]
    /\ UNCHANGED <<tagVars, gt, rq, cp, cc, ac, rt>>

Services_Return ==
    /\ ds.pc = "done"
    /\ ds' = [pc |-> "idle"]
    /\ UNCHANGED <<tagVars, gt, rq, cp, cc, ac, rt>>

ServicesNext == Services_Read \/ Services_Return

\* The data source has not been read; nothing else of the provider is in use.
InitServices ==
    /\ remote = EmptyTags
    /\ pc = "idle"
    /\ oldTags = EmptyTags
    /\ newTags = EmptyTags
    /\ requests = <<>>
    /\ err = Nil
    /\ calls = 0
    /\ inSync = FALSE
    /\ chained = FALSE
    /\ gt = [pc |-> "idle"]
    /\ ds = [pc |-> "idle"]
    /\ rq = [pc |-> "idle"]
    /\ cp = [pc |-> "idle", Session |-> Nil, calls |-> 0]
    /\ cc = [pc |-> "idle"]
    /\ ac = [pc |-> "idle"]
    /\ rt = [pc |-> "idle"]

SpecServices == InitServices /\ [][ServicesNext]_vars

\* The ARNs of a framework list.
ARNsOf(list) == [i \in 1..Len(list) |-> list[i].value]

\* The ARNs of the cluster's services that pass the configured filters.
PassingServices(services, data) ==
    { i \in 1..Len(services) :
        /\ data.launch_type \in { Null, services[i].launchType }
        /\ data.scheduling_strategy \in { Null, services[i].schedulingStrategy } }

\* C3 as stated: after a Read without error service_arns is the concatenation of
\* the pages in page order, it is empty for a cluster without services, and it has
\* an element whenever the cluster has a service.
C3_AsStated ==
    (ds.pc = "done" /\ ds.stateSet) =>
        /\ ARNsOf(ds.service_arns) = Concat(ds.pages, Len(ds.pages))
        /\ Len(ds.services) = 0 => Len(ds.service_arns) = 0
        /\ Len(ds.services) >= 1 => Len(ds.service_arns) >= 1

\* C3, amended: after a Read without error service_arns is the concatenation of
\* the pages in page order, it is empty for a cluster without services, and it has
\* an element whenever the cluster has a service that passes the configured
\* launch_type and scheduling_strategy filters.
C3_ServiceArns ==
    (ds.pc = "done" /\ ds.stateSet) =>
        /\ ARNsOf(ds.service_arns) = Concat(ds.pages, Len(ds.pages))
        /\ Len(ds.services) = 0 => Len(ds.service_arns) = 0
        /\ PassingServices(ds.services, ds.config) # {} => Len(ds.service_arns) >= 1

\* A Read that got two services over several pages.
C3_Witness ==
    /\ ds.pc = "done" /\ ds.stateSet
    /\ Len(ds.pages) >= 2
    /\ Len(ds.pages[1]) = 1 /\ Len(ds.pages[Len(ds.pages)]) = 1
    /\ Len(ds.service_arns) = 2

\* C4: the request always carries cluster_arn; it carries launch_type, and
\* scheduling_strategy, iff that argument is configured, with the configured
\* value; an argument that is not configured leaves its field unset.
C4_RequestFields ==
    ds.pc = "done" =>
        /\ ds.input.Cluster # Nil
        /\ ds.input.Cluster.value = ds.config.cluster_arn
        /\ (ds.input.LaunchType # Unset) <=> (ds.config.launch_type # Null)
        /\ ds.config.launch_type # Null => ds.input.LaunchType = ds.config.launch_type
        /\ (ds.input.SchedulingStrategy # Unset) <=> (ds.config.scheduling_strategy # Null)
        /\ ds.config.scheduling_strategy # Null
              => ds.input.SchedulingStrategy = ds.config.scheduling_strategy

\* A Read with one filter configured and the other not.
C4_Witness ==
    /\ ds.pc = "done"
    /\ ds.config.launch_type = Null
    /\ ds.config.scheduling_strategy = "DAEMON"
    /\ ds.input.SchedulingStrategy = "DAEMON"
    /\ ds.input.LaunchType = Unset

\* ------------------------------------------------------------------------
\* conns: the retry handlers ConfigureProvider appends
\* ------------------------------------------------------------------------
\* c.MaxRetries: the most retries the SDK makes of one request.
MaxRetries == 11

\* The retry count from which the Config handlers stop retrying.
ConfigRetryLimit == 9

\* r.Retryable is a *bool: nil, true or false.
RetryableNil == "nil"
aws_Bool(b) == IF b THEN "true" ELSE "false"

\* ConfigureProvider's own err, which two handlers read instead of r.Error: it is
\* nil once the function has passed its last error return.
ConfigureProvider_err == Nil

RetryServices ==
    { "apigateway", "apigatewayv2", "applicationautoscaling", "appconfig", "appsync",
      "chime", "cloudhsmv2", "configservice", "cloudformation", "dynamodb", "ec2",
      "fms", "kafka", "kinesis", "lightsail", "organizations", "s3", "securityhub",
      "ssoadmin", "storagegateway", "wafv2" }

ConfigRuleOps ==
    { <<"DeleteOrganizationConfigRule">>, <<"DescribeOrganizationConfigRules">>,
      <<"DescribeOrganizationConfigRuleStatuses">>, <<"PutOrganizationConfigRule">> }

ConformancePackOps ==
    { <<"DeleteOrganizationConformancePack">>, <<"DescribeOrganizationConformancePacks">>,
      <<"DescribeOrganizationConformancePackStatuses">>, <<"PutOrganizationConformancePack">> }

WAFv2CreateOps ==
    { <<"CreateIPSet">>, <<"CreateRegexPatternSet">>, <<"CreateRuleGroup">>, <<"CreateWebACL">> }

\* The operations requests are made for: those the handlers name and, for each
\* service, others.
OpsOf(svc) ==
    CASE svc = "apigateway" -> { <<"CreateDeployment">>, <<"UpdateStage">>, <<"GetRestApis">> }
      [] svc = "apigatewayv2" -> { <<"CreateApi">>, <<"DeleteRoute">>, <<"GetApis">> }
      [] svc = "applicationautoscaling" ->
            { <<"Describe", "ScalableTargets">>, <<"List", "TagsForResource">>,
              <<"Register", "ScalableTarget">>, <<"Put", "Describe", "Policy">> }
      [] svc = "appconfig" -> { <<"StartDeployment">>, <<"StopDeployment">> }
      [] svc = "appsync" -> { <<"CreateGraphqlApi">>, <<"UpdateGraphqlApi">> }
      [] svc = "chime" -> { <<"CreateVoiceConnector">>, <<"DeleteVoiceConnector">> }
      [] svc = "cloudhsmv2" -> { <<"CreateCluster">>, <<"CreateHsm">> }
      [] svc = "configservice" ->
            ConfigRuleOps \cup ConformancePackOps \cup { <<"PutConfigRule">> }
      [] svc = "cloudformation" -> { <<"CreateStackInstances">>, <<"DescribeStacks">> }
      [] svc = "dynamodb" ->
            { <<"PutItem">>, <<"UpdateItem">>, <<"DeleteItem">>, <<"GetItem">> }
      [] svc = "ec2" ->
            { <<"AttachVpnGateway">>, <<"DetachVpnGateway">>, <<"CreateClientVpnEndpoint">>,
              <<"CreateClientVpnRoute">>, <<"DeleteClientVpnRoute">>, <<"CreateVpnConnection">>,
              <<"CreateVpnGateway">>, <<"RunInstances">>, <<"DescribeInstances">> }
      [] svc = "fms" ->
            { <<"AssociateAdminAccount">>, <<"DisassociateAdminAccount">>, <<"PutPolicy">>,
              <<"GetPolicy">> }
      [] svc = "kafka" -> { <<"CreateCluster">>, <<"ListClusters">> }
      [] svc = "kinesis" -> { <<"CreateStream">>, <<"DeleteStream">>, <<"DescribeStream">> }
      [] svc = "lightsail" ->
            { <<"CreateContainerService">>, <<"UpdateContainerService">>,
              <<"CreateContainerServiceDeployment">>, <<"DeleteContainerService">>,
              <<"GetContainerServices">> }
      [] svc = "organizations" -> { <<"CreateAccount">>, <<"ListAccounts">> }
      [] svc = "s3" -> { <<"PutBucketPolicy">>, <<"GetBucketPolicy">> }
      [] svc = "securityhub" ->
            { <<"EnableOrganizationAdminAccount">>, <<"DisableOrganizationAdminAccount">> }
      [] svc = "ssoadmin" ->
            { <<"AttachManagedPolicyToPermissionSet">>, <<"DetachManagedPolicyFromPermissionSet">>,
              <<"CreatePermissionSet">> }
      [] svc = "storagegateway" -> { <<"ActivateGateway">>, <<"ListGateways">> }
      [] svc = "wafv2" -> WAFv2CreateOps \cup { <<"UpdateWebACL">> }

\* The message texts the handlers look for.
TxtTryAgainLater == <<"try again later">>
TxtGraphqlInProgress == <<"a GraphQL API creation is already in progress">>
TxtBadRequest == <<"Service received a bad request">>
TxtHsmInternal == <<"request was rejected because of an AWS CloudHSM internal failure">>
TxtMasterAccount == <<"This action can be only made by AWS Organization's master account.">>
TxtStackSet == <<"Another Operation on StackSet">>
TxtSubscriberLimit == <<"Subscriber limit exceeded:">>
TxtPendingVpns ==
    <<"This call cannot be completed because there are pending VPNs or Virtual Interfaces">>
TxtEndpointBeingCreated ==
    <<"Endpoint cannot be created while another endpoint is being created">>
TxtAnotherChange == <<"Cannot initiate another change for this endpoint at this time">>
TxtMutatingObjects == <<"maximum number of mutating objects has been reached">>
TxtOffboarding ==
    <<"Your AWS Organization is currently offboarding with AWS Firewall Manager. Please submit onboard request after offboarded.">>
TxtOnboarding ==
    <<"Your AWS Organization is currently onboarding with AWS Firewall Manager and cannot be offboarded.">>
TxtTooManyRequests == <<"Too Many Requests">>
TxtCreatingOrDeleting == <<"simultaneously be in CREATING or DELETING">>
TxtRateExceeded == <<"Rate exceeded for stream">>
TxtFewMinutes == <<"Please try again in a few minutes">>
TxtWaitToComplete == <<"Please wait for it to complete before trying again">>
TxtTryAgainLaterCapital == <<"Try again later">>
TxtConflicting ==
    <<"A conflicting conditional operation is currently in progress against this resource. Please try again.">>
TxtProxyBusy == <<"The specified gateway proxy network connection is busy">>
TxtRetry == <<"Retry">>
TxtRetryYourRequest == <<"Retry", " your request">>

\* Whole messages: a text the service sends, inside a sentence.
Sentence(text) == <<"Error: ">> \o text \o <<".">>

Unrelated == <<"The request failed">>

\* The error codes and messages a service answers with.
CodesOf(svc) ==
    CASE svc \in { "apigateway", "apigatewayv2" } -> { "ConflictException", "TooManyRequestsException" }
      [] svc = "applicationautoscaling" -> { "FailedResourceAccessException", "ValidationException" }
      [] svc = "appconfig" -> { "ConflictException", "BadRequestException" }
      [] svc = "appsync" -> { "ConcurrentModificationException", "BadRequestException" }
      [] svc = "chime" -> { "BadRequestException", "ForbiddenException" }
      [] svc = "cloudhsmv2" -> { "CloudHsmInternalFailureException", "CloudHsmServiceException" }
      [] svc = "configservice" ->
            { "OrganizationAccessDeniedException", "ResourceInUseException", "ValidationException" }
      [] svc = "cloudformation" -> { "OperationInProgressException", "ValidationError" }
      [] svc = "dynamodb" -> { "LimitExceededException", "ResourceInUseException" }
      [] svc = "ec2" ->
            { "InvalidParameterValue", "OperationNotPermitted", "ConcurrentMutationLimitExceeded",
              "VpnConnectionLimitExceeded", "VpnGatewayLimitExceeded",
              "InsufficientInstanceCapacity" }
      [] svc = "fms" -> { "InvalidOperationException", "InternalErrorException" }
      [] svc = "kafka" -> { "TooManyRequestsException", "BadRequestException" }
      [] svc = "kinesis" -> { "LimitExceededException", "ResourceInUseException" }
      [] svc = "lightsail" -> { "InvalidInputException", "ServiceException" }
      [] svc = "organizations" -> { "ConcurrentModificationException", "AccessDeniedException" }
      [] svc = "s3" -> { "OperationAborted", "NoSuchBucket" }
      [] svc = "securityhub" -> { "ResourceConflictException", "InvalidInputException" }
      [] svc = "ssoadmin" -> { "ConflictException", "ThrottlingException" }
      [] svc = "storagegateway" -> { "InvalidGatewayRequestException", "InternalServerError" }
      [] svc = "wafv2" ->
            { "WAFInternalErrorException", "WAFServiceLinkedRoleErrorException",
              "WAFTagOperationException", "WAFTagOperationInternalErrorException",
              "WAFInvalidParameterException" }

TextsOf(svc) ==
    CASE svc \in { "apigateway", "apigatewayv2" } -> { TxtTryAgainLater, TxtTryAgainLaterCapital }
      [] svc = "applicationautoscaling" -> { }
      [] svc = "appconfig" -> { }
      [] svc = "appsync" -> { TxtGraphqlInProgress }
      [] svc = "chime" -> { TxtBadRequest }
      [] svc = "cloudhsmv2" -> { TxtHsmInternal }
      [] svc = "configservice" -> { TxtMasterAccount }
      [] svc = "cloudformation" -> { TxtStackSet }
      [] svc = "dynamodb" -> { TxtSubscriberLimit }
      [] svc = "ec2" ->
            { TxtPendingVpns, TxtEndpointBeingCreated, TxtAnotherChange, TxtMutatingObjects }
      [] svc = "fms" -> { TxtOffboarding, TxtOnboarding }
      [] svc = "kafka" -> { TxtTooManyRequests }
      [] svc = "kinesis" -> { TxtCreatingOrDeleting, TxtRateExceeded }
      [] svc = "lightsail" -> { TxtFewMinutes, TxtWaitToComplete }
      [] svc = "organizations" -> { TxtTryAgainLaterCapital, TxtTryAgainLater }
      [] svc = "s3" -> { TxtConflicting }
      [] svc = "securityhub" -> { }
      [] svc = "ssoadmin" -> { }
      [] svc = "storagegateway" -> { TxtProxyBusy }
      [] svc = "wafv2" -> { TxtRetryYourRequest, TxtRetry }

ErrorsOf(svc) ==
    { AwsErr(c, m) : c \in CodesOf(svc),
                     m \in { Sentence(t) : t \in TextsOf(svc) } \cup { Unrelated } }

\* r.Retryable = aws.Bool(b)
SetRetryable(r, b) == [r EXCEPT !.Retryable = aws_Bool(b)]

\* A slip that looks for the text with a capital.
Handler_apigateway_Capital(r) ==
    IF ErrMessageContains(r.Error, "ConflictException", TxtTryAgainLaterCapital)
    THEN SetRetryable(r, TRUE) ELSE r

Handler_apigateway(r) ==
    IF ErrMessageContains(r.Error, "ConflictException", TxtTryAgainLater)
    THEN SetRetryable(r, TRUE) ELSE r

Handler_apigatewayv2(r) ==
    IF ErrMessageContains(r.Error, "ConflictException", TxtTryAgainLater)
    THEN SetRetryable(r, TRUE) ELSE r

Handler_applicationautoscaling(r) ==
    IF ~HasPrefix(r.Operation, <<"Describe">>) /\ ~HasPrefix(r.Operation, <<"List">>)
    THEN r
    ELSE IF ErrCodeEquals(r.Error, "FailedResourceAccessException")
    THEN SetRetryable(r, TRUE) ELSE r

Handler_appconfig(r) ==
    IF r.Operation = <<"StartDeployment">> /\ ErrCodeEquals(r.Error, "ConflictException")
    THEN SetRetryable(r, TRUE) ELSE r

Handler_appsync(r) ==
    IF /\ r.Operation = <<"CreateGraphqlApi">>
       /\ ErrMessageContains(r.Error, "ConcurrentModificationException", TxtGraphqlInProgress)
    THEN SetRetryable(r, TRUE) ELSE r

Handler_chime(r) ==
    IF /\ r.Operation = <<"CreateVoiceConnector">>
       /\ ErrMessageContains(r.Error, "BadRequestException", TxtBadRequest)
    THEN SetRetryable(r, TRUE) ELSE r

Handler_cloudhsmv2(r) ==
    IF ErrMessageContains(r.Error, "CloudHsmInternalFailureException", TxtHsmInternal)
    THEN SetRetryable(r, TRUE) ELSE r

\* A slip that retries once more and never forbids the retry.
Handler_configservice_NoCutoff(r) ==
    IF r.Operation \in ConfigRuleOps
    THEN IF ~ErrMessageContains(r.Error, "OrganizationAccessDeniedException", TxtMasterAccount)
         THEN r
         ELSE IF r.RetryCount <= ConfigRetryLimit THEN SetRetryable(r, TRUE) ELSE r
    ELSE IF r.Operation \in ConformancePackOps
    THEN IF ~ErrCodeEquals(r.Error, "OrganizationAccessDeniedException")
         THEN r
         ELSE IF r.RetryCount <= ConfigRetryLimit THEN SetRetryable(r, TRUE) ELSE r
    ELSE r

Handler_configservice(r) ==
    IF r.Operation \in ConfigRuleOps
    THEN IF ~ErrMessageContains(r.Error, "OrganizationAccessDeniedException", TxtMasterAccount)
         THEN r
         ELSE IF r.RetryCount < ConfigRetryLimit
              THEN SetRetryable(r, TRUE)
              ELSE SetRetryable(r, FALSE)
    ELSE IF r.Operation \in ConformancePackOps
    THEN IF ~ErrCodeEquals(r.Error, "OrganizationAccessDeniedException")
         THEN IF /\ r.Operation = <<"DeleteOrganizationConformancePack">>
                 /\ ErrCodeEquals(ConfigureProvider_err, "ResourceInUseException")
              THEN SetRetryable(r, TRUE)
              ELSE r
         ELSE IF r.RetryCount < ConfigRetryLimit
              THEN SetRetryable(r, TRUE)
              ELSE SetRetryable(r, FALSE)
    ELSE r

Handler_cloudformation(r) ==
    IF ErrMessageContains(r.Error, "OperationInProgressException", TxtStackSet)
    THEN SetRetryable(r, TRUE) ELSE r

\* A slip that drops the operation test.
Handler_dynamodb_AnyOperation(r) ==
    IF ErrMessageContains(r.Error, "LimitExceededException", TxtSubscriberLimit)
    THEN SetRetryable(r, TRUE) ELSE r

Handler_dynamodb(r) ==
    IF /\ r.Operation # <<"PutItem">>
       /\ r.Operation # <<"UpdateItem">>
       /\ r.Operation # <<"DeleteItem">>
    THEN r
    ELSE IF ErrMessageContains(r.Error, "LimitExceededException", TxtSubscriberLimit)
    THEN SetRetryable(r, TRUE) ELSE r

\* The cases of the ec2 handler but RunInstances.
Handler_ec2_Vpn(r) ==
    LET e == r.Error
    IN  IF r.Operation \in { <<"AttachVpnGateway">>, <<"DetachVpnGateway">> }
        THEN IF ErrMessageContains(e, "InvalidParameterValue", TxtPendingVpns)
             THEN SetRetryable(r, TRUE) ELSE r
        ELSE IF r.Operation = <<"CreateClientVpnEndpoint">>
        THEN IF ErrMessageContains(e, "OperationNotPermitted", TxtEndpointBeingCreated)
             THEN SetRetryable(r, TRUE) ELSE r
        ELSE IF r.Operation \in { <<"CreateClientVpnRoute">>, <<"DeleteClientVpnRoute">> }
        THEN IF ErrMessageContains(e, "ConcurrentMutationLimitExceeded", TxtAnotherChange)
             THEN SetRetryable(r, TRUE) ELSE r
        ELSE IF r.Operation = <<"CreateVpnConnection">>
        THEN IF ErrMessageContains(e, "VpnConnectionLimitExceeded", TxtMutatingObjects)
             THEN SetRetryable(r, TRUE) ELSE r
        ELSE IF r.Operation = <<"CreateVpnGateway">>
        THEN IF ErrMessageContains(e, "VpnGatewayLimitExceeded", TxtMutatingObjects)
             THEN SetRetryable(r, TRUE) ELSE r
        ELSE r

\* A slip that leaves out the RunInstances case.
Handler_ec2_NoRunInstances(r) == Handler_ec2_Vpn(r)

Handler_ec2(r) ==
    IF r.Operation = <<"RunInstances">>
    THEN IF ErrCodeEquals(r.Error, "InsufficientInstanceCapacity")
         THEN SetRetryable(r, FALSE) ELSE r
    ELSE Handler_ec2_Vpn(r)

Handler_fms(r) ==
    IF r.Operation = <<"AssociateAdminAccount">>
    THEN IF ErrMessageContains(r.Error, "InvalidOperationException", TxtOffboarding)
         THEN SetRetryable(r, TRUE) ELSE r
    ELSE IF r.Operation = <<"DisassociateAdminAccount">>
    THEN IF ErrMessageContains(r.Error, "InvalidOperationException", TxtOnboarding)
         THEN SetRetryable(r, TRUE) ELSE r
    ELSE IF r.Operation = <<"PutPolicy">>
    THEN IF ErrCodeEquals(r.Error, "InternalErrorException")
         THEN SetRetryable(r, TRUE) ELSE r
    ELSE r

Handler_kafka(r) ==
    IF ErrMessageContains(r.Error, "TooManyRequestsException", TxtTooManyRequests)
    THEN SetRetryable(r, TRUE) ELSE r

Handler_kinesis(r) ==
    LET r1 == IF /\ r.Operation = <<"CreateStream">>
                 /\ ErrMessageContains(r.Error, "LimitExceededException", TxtCreatingOrDeleting)
              THEN SetRetryable(r, TRUE) ELSE r
    IN  IF /\ r1.Operation \in { <<"CreateStream">>, <<"DeleteStream">> }
           /\ ErrMessageContains(r1.Error, "LimitExceededException", TxtRateExceeded)
        THEN SetRetryable(r1, TRUE) ELSE r1

Handler_lightsail(r) ==
    IF r.Operation \in { <<"CreateContainerService">>, <<"UpdateContainerService">>,
                         <<"CreateContainerServiceDeployment">> }
    THEN IF ErrMessageContains(r.Error, "InvalidInputException", TxtFewMinutes)
         THEN SetRetryable(r, TRUE) ELSE r
    ELSE IF r.Operation = <<"DeleteContainerService">>
    THEN IF \/ ErrMessageContains(r.Error, "InvalidInputException", TxtFewMinutes)
            \/ ErrMessageContains(r.Error, "InvalidInputException", TxtWaitToComplete)
         THEN SetRetryable(r, TRUE) ELSE r
    ELSE r

Handler_organizations(r) ==
    IF ErrMessageContains(r.Error, "ConcurrentModificationException", TxtTryAgainLaterCapital)
    THEN SetRetryable(r, TRUE) ELSE r

Handler_s3(r) ==
    IF ErrMessageContains(r.Error, "OperationAborted", TxtConflicting)
    THEN SetRetryable(r, TRUE) ELSE r

\* A slip that drops the error test.
Handler_securityhub_AnyError(r) ==
    IF r.Operation = <<"EnableOrganizationAdminAccount">>
    THEN SetRetryable(r, TRUE) ELSE r

Handler_securityhub(r) ==
    IF /\ r.Operation = <<"EnableOrganizationAdminAccount">>
       /\ ErrCodeEquals(r.Error, "ResourceConflictException")
    THEN SetRetryable(r, TRUE) ELSE r

Handler_ssoadmin(r) ==
    IF /\ \/ r.Operation = <<"AttachManagedPolicyToPermissionSet">>
          \/ r.Operation = <<"DetachManagedPolicyFromPermissionSet">>
       /\ ErrCodeEquals(r.Error, "ConflictException")
    THEN SetRetryable(r, TRUE) ELSE r

Handler_storagegateway(r) ==
    IF ErrMessageContains(r.Error, "InvalidGatewayRequestException", TxtProxyBusy)
    THEN SetRetryable(r, TRUE) ELSE r

\* The wafv2 handler reads r.Error in its first three tests and ConfigureProvider's
\* err in the last.
Handler_wafv2(r) ==
    LET r1 == IF ErrMessageContains(r.Error, "WAFInternalErrorException", TxtRetryYourRequest)
              THEN SetRetryable(r, TRUE) ELSE r
        r2 == IF ErrMessageContains(r1.Error, "WAFServiceLinkedRoleErrorException", TxtRetry)
              THEN SetRetryable(r1, TRUE) ELSE r1
    IN  IF r2.Operation \in WAFv2CreateOps
        THEN LET r3 == IF ErrMessageContains(r2.Error, "WAFTagOperationException",
                                             TxtRetryYourRequest)
                       THEN SetRetryable(r2, TRUE) ELSE r2
             IN  IF ErrMessageContains(ConfigureProvider_err,
                                       "WAFTagOperationInternalErrorException",
                                       TxtRetryYourRequest)
                 THEN SetRetryable(r3, TRUE) ELSE r3
        ELSE r2

\* The handler ConfigureProvider pushed to the back of the client's retry handlers.
RetryHandler(svc, r) ==
    CASE svc = "apigateway" -> Handler_apigateway(r)
      [] svc = "apigatewayv2" -> Handler_apigatewayv2(r)
      [] svc = "applicationautoscaling" -> Handler_applicationautoscaling(r)
      [] svc = "appconfig" -> Handler_appconfig(r)
      [] svc = "appsync" -> Handler_appsync(r)
      [] svc = "chime" -> Handler_chime(r)
      [] svc = "cloudhsmv2" -> Handler_cloudhsmv2(r)
      [] svc = "configservice" -> Handler_configservice(r)
      [] svc = "cloudformation" -> Handler_cloudformation(r)
      [] svc = "dynamodb" -> Handler_dynamodb(r)
      [] svc = "ec2" -> Handler_ec2(r)
      [] svc = "fms" -> Handler_fms(r)
      [] svc = "kafka" -> Handler_kafka(r)
      [] svc = "kinesis" -> Handler_kinesis(r)
      [] svc = "lightsail" -> Handler_lightsail(r)
      [] svc = "organizations" -> Handler_organizations(r)
      [] svc = "s3" -> Handler_s3(r)
      [] svc = "securityhub" -> Handler_securityhub(r)
      [] svc = "ssoadmin" -> Handler_ssoadmin(r)
      [] svc = "storagegateway" -> Handler_storagegateway(r)
      [] svc = "wafv2" -> Handler_wafv2(r)

\* ------------------------------------------------------------------------
\* A request on a customized client, through the SDK's retry loop
\* ------------------------------------------------------------------------
\* A request is made: no error, no retry decision, no retry yet.
Retry_Send ==
    /\ rq.pc = "idle"
    /\ \E svc \in RetryServices : \E op \in OpsOf(svc) :
          rq' = [pc |-> "sending", svc |-> svc, Operation |-> op, Error |-> Nil,
                 Retryable |-> RetryableNil, prior |-> RetryableNil, RetryCount |-> 0,
                 lastError |-> Nil]
    /\ UNCHANGED <<tagVars, gt, ds, cp, cc, ac, rt>>

\* The attempt succeeds: the request is done.
Retry_AttemptOk ==
    /\ rq.pc = "sending"
    /\ rq' = [rq EXCEPT !.pc = "done"]
    /\ UNCHANGED <<tagVars, gt, ds, cp, cc, ac, rt>>

\* The attempt fails, and the retry handlers in front of the custom one have run:
\* they leave Retryable nil, true or false.
Retry_AttemptFail ==
    /\ rq.pc = "sending"
    /\ \E e \in ErrorsOf(rq.svc), p \in { RetryableNil, aws_Bool(TRUE), aws_Bool(FALSE) } :
          rq' = [rq EXCEPT !.pc = "retryHandler", !.Error = e, !.Retryable = p, !.prior = p]
    /\ UNCHANGED <<tagVars, gt, ds, cp, cc, ac, rt>>

\* The custom handler runs, last of the retry handlers.
Retry_CustomHandler ==
    /\ rq.pc = "retryHandler"
    /\ rq' = [RetryHandler(rq.svc, rq) EXCEPT !.pc = "afterRetry"]
    /\ UNCHANGED <<tagVars, gt, ds, cp, cc, ac, rt>>

\* Request.WillRetry
WillRetry(r) == r.Error # Nil /\ r.Retryable = aws_Bool(TRUE) /\ r.RetryCount < MaxRetries

\* The SDK's AfterRetry handler: the retryer decides only when no handler did;
\* a request that will be retried is sent again with its error cleared.
Retry_AfterRetry ==
    /\ rq.pc = "afterRetry"
    /\ \E shouldRetry \in BOOLEAN :
          LET r == IF rq.Retryable = RetryableNil
                   THEN SetRetryable(rq, shouldRetry) ELSE rq
          IN  IF WillRetry(r)
              THEN rq' = [r EXCEPT !.pc = "sending", !.RetryCount = r.RetryCount + 1,
                                   !.lastError = r.Error, !.Error = Nil,
                                   !.Retryable = RetryableNil, !.prior = RetryableNil]
              ELSE rq' = [r EXCEPT !.pc = "done"]
    /\ UNCHANGED <<tagVars, gt, ds, cp, cc, ac, rt>>

Retry_Done ==
    /\ rq.pc = "done"
    /\ rq' = [pc |-> "idle"]
    /\ UNCHANGED <<tagVars, gt, ds, cp, cc, ac, rt>>

RetryNext ==
    \/ Retry_Send
    \/ Retry_AttemptOk
    \/ Retry_AttemptFail
    \/ Retry_CustomHandler
    \/ Retry_AfterRetry
    \/ Retry_Done

\* No request is in flight; nothing else of the provider is in use.
InitRetry ==
    /\ remote = EmptyTags
    /\ pc = "idle"
    /\ oldTags = EmptyTags
    /\ newTags = EmptyTags
    /\ requests = <<>>
    /\ err = Nil
    /\ calls = 0
    /\ inSync = FALSE
    /\ chained = FALSE
    /\ gt = [pc |-> "idle"]
    /\ ds = [pc |-> "idle"]
    /\ rq = [pc |-> "idle"]
    /\ cp = [pc |-> "idle", Session |-> Nil, calls |-> 0]
    /\ cc = [pc |-> "idle"]
    /\ ac = [pc |-> "idle"]
    /\ rt = [pc |-> "idle"]

SpecRetry == InitRetry /\ [][RetryNext]_vars

\* The custom handler has run on the failed attempt in rq.
Handled == rq.pc = "afterRetry"

\* ------------------------------------------------------------------------
\* The rules of the handlers: (operations, error code, message text); an empty
\* text is a rule on the code alone.
\* ------------------------------------------------------------------------
Rule(ops, code, text) == [ops |-> ops, code |-> code, text |-> text]

AnyOp(svc) == OpsOf(svc)

RetryRules(svc) ==
    CASE svc \in { "apigateway", "apigatewayv2" } ->
            { Rule(AnyOp(svc), "ConflictException", TxtTryAgainLater) }
      [] svc = "applicationautoscaling" ->
            { Rule({ o \in OpsOf(svc) : o[1] \in { "Describe", "List" } },
                   "FailedResourceAccessException", <<>>) }
      [] svc = "appconfig" -> { Rule({ <<"StartDeployment">> }, "ConflictException", <<>>) }
      [] svc = "appsync" ->
            { Rule({ <<"CreateGraphqlApi">> }, "ConcurrentModificationException",
                   TxtGraphqlInProgress) }
      [] svc = "chime" ->
            { Rule({ <<"CreateVoiceConnector">> }, "BadRequestException", TxtBadRequest) }
      [] svc = "cloudhsmv2" ->
            { Rule(AnyOp(svc), "CloudHsmInternalFailureException", TxtHsmInternal) }
      [] svc = "configservice" ->
            { Rule(ConfigRuleOps, "OrganizationAccessDeniedException", TxtMasterAccount),
              Rule(ConformancePackOps, "OrganizationAccessDeniedException", <<>>),
              Rule({ <<"DeleteOrganizationConformancePack">> }, "ResourceInUseException", <<>>) }
      [] svc = "cloudformation" ->
            { Rule(AnyOp(svc), "OperationInProgressException", TxtStackSet) }
      [] svc = "dynamodb" ->
            { Rule({ <<"PutItem">>, <<"UpdateItem">>, <<"DeleteItem">> },
                   "LimitExceededException", TxtSubscriberLimit) }
      [] svc = "ec2" ->
            { Rule({ <<"AttachVpnGateway">>, <<"DetachVpnGateway">> },
                   "InvalidParameterValue", TxtPendingVpns),
              Rule({ <<"CreateClientVpnEndpoint">> }, "OperationNotPermitted",
                   TxtEndpointBeingCreated),
              Rule({ <<"CreateClientVpnRoute">>, <<"DeleteClientVpnRoute">> },
                   "ConcurrentMutationLimitExceeded", TxtAnotherChange),
              Rule({ <<"CreateVpnConnection">> }, "VpnConnectionLimitExceeded",
                   TxtMutatingObjects),
              Rule({ <<"CreateVpnGateway">> }, "VpnGatewayLimitExceeded", TxtMutatingObjects),
              Rule({ <<"RunInstances">> }, "InsufficientInstanceCapacity", <<>>) }
      [] svc = "fms" ->
            { Rule({ <<"AssociateAdminAccount">> }, "InvalidOperationException", TxtOffboarding),
              Rule({ <<"DisassociateAdminAccount">> }, "InvalidOperationException",
                   TxtOnboarding),
              Rule({ <<"PutPolicy">> }, "InternalErrorException", <<>>) }
      [] svc = "kafka" -> { Rule(AnyOp(svc), "TooManyRequestsException", TxtTooManyRequests) }
      [] svc = "kinesis" ->
            { Rule({ <<"CreateStream">> }, "LimitExceededException", TxtCreatingOrDeleting),
              Rule({ <<"CreateStream">>, <<"DeleteStream">> }, "LimitExceededException",
                   TxtRateExceeded) }
      [] svc = "lightsail" ->
            { Rule({ <<"CreateContainerService">>, <<"UpdateContainerService">>,
                     <<"CreateContainerServiceDeployment">>, <<"DeleteContainerService">> },
                   "InvalidInputException", TxtFewMinutes),
              Rule({ <<"DeleteContainerService">> }, "InvalidInputException",
                   TxtWaitToComplete) }
      [] svc = "organizations" ->
            { Rule(AnyOp(svc), "ConcurrentModificationException", TxtTryAgainLaterCapital) }
      [] svc = "s3" -> { Rule(AnyOp(svc), "OperationAborted", TxtConflicting) }
      [] svc = "securityhub" ->
            { Rule({ <<"EnableOrganizationAdminAccount">> }, "ResourceConflictException", <<>>) }
      [] svc = "ssoadmin" ->
            { Rule({ <<"AttachManagedPolicyToPermissionSet">>,
                     <<"DetachManagedPolicyFromPermissionSet">> }, "ConflictException", <<>>) }
      [] svc = "storagegateway" ->
            { Rule(AnyOp(svc), "InvalidGatewayRequestException", TxtProxyBusy) }
      [] svc = "wafv2" ->
            { Rule(AnyOp(svc), "WAFInternalErrorException", TxtRetryYourRequest),
              Rule(AnyOp(svc), "WAFServiceLinkedRoleErrorException", TxtRetry),
              Rule(WAFv2CreateOps, "WAFTagOperationException", TxtRetryYourRequest),
              Rule(WAFv2CreateOps, "WAFTagOperationInternalErrorException",
                   TxtRetryYourRequest) }

RuleMatches(rule, r) ==
    /\ r.Error # Nil
    /\ r.Operation \in rule.ops
    /\ r.Error.code = rule.code
    /\ Contains(r.Error.message, rule.text)

\* C6: a custom handler changes Retryable only for a request whose error matches
\* one of its rules; otherwise the flag is as the earlier handlers left it.
C6_HandlerFrame ==
    Handled =>
        (rq.Retryable # rq.prior => \E rule \in RetryRules(rq.svc) : RuleMatches(rule, rq))

\* A handler overrode the earlier handlers' decision on a matching error.
C6_Witness ==
    /\ Handled
    /\ rq.svc = "kinesis"
    /\ rq.prior = aws_Bool(FALSE)
    /\ rq.Retryable = aws_Bool(TRUE)

\* The Config failures of C7.
OrgAccessDenied(op, e) ==
    /\ e # Nil
    /\ e.code = "OrganizationAccessDeniedException"
    /\ \/ op \in ConfigRuleOps /\ Contains(e.message, TxtMasterAccount)
       \/ op \in ConformancePackOps

\* C7: for the Organization Config Rule and Conformance Pack failures the handler
\* marks the request retryable iff RetryCount < 9 and non-retryable otherwise, so
\* a retry that follows such a failure is at most the 9th: 10 attempts at most.
C7_BoundedConfigRetries ==
    /\ (Handled /\ rq.svc = "configservice" /\ OrgAccessDenied(rq.Operation, rq.Error)) =>
          /\ rq.Retryable \in { aws_Bool(TRUE), aws_Bool(FALSE) }
          /\ rq.Retryable = aws_Bool(TRUE) <=> rq.RetryCount < 9
    /\ (/\ rq.pc = "sending"
        /\ rq.svc = "configservice"
        /\ OrgAccessDenied(rq.Operation, rq.lastError)) => rq.RetryCount + 1 <= 10

\* The tenth attempt failed that way although the earlier handlers said retry:
\* the request ended.
C7_Witness ==
    /\ rq.pc = "done"
    /\ rq.svc = "configservice"
    /\ rq.Operation = <<"PutOrganizationConformancePack">>
    /\ OrgAccessDenied(rq.Operation, rq.Error)
    /\ rq.RetryCount = 9
    /\ rq.prior = aws_Bool(TRUE)
    /\ rq.Retryable = aws_Bool(FALSE)

\* C8 as stated: for the four create operations a failure with
\* WAFTagOperationException or WAFTagOperationInternalErrorException whose message
\* contains "Retry your request" is marked retryable.
C8_TagOnCreateRetried ==
    (/\ Handled
     /\ rq.svc = "wafv2"
     /\ rq.Operation \in WAFv2CreateOps
     /\ rq.Error.code \in { "WAFTagOperationException", "WAFTagOperationInternalErrorException" }
     /\ Contains(rq.Error.message, TxtRetryYourRequest))
        => rq.Retryable = aws_Bool(TRUE)

\* C9: a RunInstances failure with InsufficientInstanceCapacity leaves the custom
\* handler with Retryable false, whatever the earlier handlers said, and no retry
\* follows it.
C9_RunInstancesNotRetried ==
    /\ (/\ rq.pc \in { "afterRetry", "done" }
        /\ rq.svc = "ec2"
        /\ rq.Operation = <<"RunInstances">>
        /\ ErrCodeEquals(rq.Error, "InsufficientInstanceCapacity"))
          => rq.Retryable = aws_Bool(FALSE)
    /\ (rq.pc = "sending" /\ rq.svc = "ec2" /\ rq.Operation = <<"RunInstances">>)
          => ~ErrCodeEquals(rq.lastError, "InsufficientInstanceCapacity")

\* The earlier handlers had marked the failure retryable, and the request ended.
C9_Witness ==
    /\ rq.pc = "done"
    /\ rq.svc = "ec2"
    /\ rq.Operation = <<"RunInstances">>
    /\ ErrCodeEquals(rq.Error, "InsufficientInstanceCapacity")
    /\ rq.prior = aws_Bool(TRUE)
    /\ rq.Retryable = aws_Bool(FALSE)
    /\ rq.RetryCount = 0

\* C10: on the API Gateway clients a ConflictException whose message contains
\* "try again later" is marked retryable, for every operation.
C10_ConflictRetried ==
    (/\ Handled
     /\ rq.svc \in { "apigateway", "apigatewayv2" }
     /\ rq.Error.code = "ConflictException"
     /\ Contains(rq.Error.message, TxtTryAgainLater))
        => rq.Retryable = aws_Bool(TRUE)

\* A read operation's conflict that the earlier handlers had not marked retryable.
C10_Witness ==
    /\ Handled
    /\ rq.svc = "apigatewayv2"
    /\ rq.Operation = <<"GetApis">>
    /\ rq.Error.code = "ConflictException"
    /\ Contains(rq.Error.message, TxtTryAgainLater)
    /\ rq.prior = aws_Bool(FALSE)
    /\ rq.Retryable = aws_Bool(TRUE)

\* The operations each operation-scoped handler of C11 applies to.
ScopedOps(svc) ==
    CASE svc = "appconfig" -> { <<"StartDeployment">> }
      [] svc = "applicationautoscaling" ->
            { o \in OpsOf(svc) : o[1] = "Describe" \/ o[1] = "List" }
      [] svc = "dynamodb" -> { <<"PutItem">>, <<"UpdateItem">>, <<"DeleteItem">> }
      [] svc = "ssoadmin" ->
            { <<"AttachManagedPolicyToPermissionSet">>,
              <<"DetachManagedPolicyFromPermissionSet">> }

\* C11: the appconfig, applicationautoscaling, dynamodb and ssoadmin handlers
\* never modify a request for an operation outside their scope, whatever its error.
C11_NoLeakToOtherOperations ==
    (/\ Handled
     /\ rq.svc \in { "appconfig", "applicationautoscaling", "dynamodb", "ssoadmin" }
     /\ rq.Operation \notin ScopedOps(rq.svc))
        => rq.Retryable = rq.prior

\* GetItem failed with the very error the dynamodb rule names, and was left alone.
C11_Witness ==
    /\ Handled
    /\ rq.svc = "dynamodb"
    /\ rq.Operation = <<"GetItem">>
    /\ rq.Error.code = "LimitExceededException"
    /\ Contains(rq.Error.message, TxtSubscriberLimit)
    /\ rq.prior = aws_Bool(FALSE)
    /\ rq.Retryable = aws_Bool(FALSE)

\* ------------------------------------------------------------------------
\* conns: ConfigureProvider
\* ------------------------------------------------------------------------
\* Number of ConfigureProvider calls on one client in one run.
MaxConfigureCalls == 2

\* names.S3, names.STS, and another service package.
PackageNames == { "s3", "sts", "ecs" }

AccountIDs == { "111111111111", "222222222222" }

\* An endpoint override for a service, and the empty string of a missing one.
CustomEndpoint(name) == <<"https://", name, ".example.com">>
NoEndpoint == <<>>

\* c.Endpoints: any service may have an override.
EndpointMaps ==
    { [n \in PackageNames |-> IF n \in over THEN CustomEndpoint(n) ELSE NoEndpoint]
      : over \in SUBSET PackageNames }

\* The settings of Config the service packages are given.
ProviderConfigs ==
    [Endpoints : EndpointMaps, S3UsePathStyle : BOOLEAN, STSRegion : { "", "us-gov-west-1" }]

\* allowed_account_ids and forbidden_account_ids exclude each other in the schema.
AccountLists ==
    { [allowed |-> a, forbidden |-> f] :
        a \in SUBSET AccountIDs, f \in SUBSET AccountIDs } 

\* The two account checks: the first walks c.AllowedAccountIds under the test of
\* c.ForbiddenAccountIds, the second requires membership in a non-empty allow list.
AccountPermitted(accountID, lists) ==
    /\ ~(Cardinality(lists.forbidden) > 0 /\ accountID \in lists.allowed)
    /\ (Cardinality(lists.allowed) > 0 => accountID \in lists.allowed)

\* The AWS SDK v1 session the call creates.
SessionOf(call) == [what |-> "session", call |-> call]

\* The map a service package is configured with.
ConfigureInput_PathStyleForAll(spName, c, sess) ==
    LET base == { "aws_sdkv2_config", "endpoint", "partition", "session" }
        keys == base \cup { "s3_use_path_style" }
                     \cup (IF spName = "sts" THEN { "sts_region" } ELSE {})
    IN  [k \in keys |->
            CASE k = "aws_sdkv2_config" -> "cfg"
              [] k = "endpoint" -> c.Endpoints[spName]
              [] k = "partition" -> "aws"
              [] k = "session" -> sess
              [] k = "s3_use_path_style" -> c.S3UsePathStyle
              [] k = "sts_region" -> c.STSRegion]

ConfigureInput(spName, c, sess) ==
    LET base == { "aws_sdkv2_config", "endpoint", "partition", "session" }
        keys == base \cup (IF spName = "s3" THEN { "s3_use_path_style" } ELSE {})
                     \cup (IF spName = "sts" THEN { "sts_region" } ELSE {})
    IN  [k \in keys |->
            CASE k = "aws_sdkv2_config" -> "cfg"
              [] k = "endpoint" -> c.Endpoints[spName]
              [] k = "partition" -> "aws"
              [] k = "session" -> sess
              [] k = "s3_use_path_style" -> c.S3UsePathStyle
              [] k = "sts_region" -> c.STSRegion]

\* The clients whose retry handlers are customized, in the order of the code.
RetryHandlerOrder ==
    << "apigateway", "apigatewayv2", "applicationautoscaling", "appconfig", "appsync",
       "chime", "cloudhsmv2", "configservice", "cloudformation", "dynamodb", "ec2",
       "fms", "kafka", "kinesis", "lightsail", "organizations", "s3", "securityhub",
       "ssoadmin", "storagegateway", "wafv2" >>

\* The service packages a call has configured so far.
ConfiguredIn(trace) == { trace[i].sp : i \in { j \in DOMAIN trace : trace[j].ev = "Configure" } }

\* From entry to "Retrieving AWS account details" and the account checks: any of
\* the four SDK steps may fail, and the account may not be permitted; each of
\* these returns an error before the client is touched.
CP_Begin ==
    /\ cp.pc = "idle"
    /\ cp.calls < MaxConfigureCalls
    /\ \E c \in ProviderConfigs, sdkFails \in BOOLEAN,
          accountID \in AccountIDs, lists \in AccountLists :
          /\ Cardinality(lists.allowed) = 0 \/ Cardinality(lists.forbidden) = 0
          /\ IF sdkFails \/ ~AccountPermitted(accountID, lists)
             THEN cp' = [cp EXCEPT !.pc = "returned", !.calls = cp.calls + 1,
                                   !.diags = "error", !.trace = <<>>, !.config = c]
             ELSE cp' = [cp EXCEPT !.pc = "client", !.calls = cp.calls + 1,
                                   !.diags = "", !.trace = <<>>, !.config = c]
    /\ UNCHANGED <<tagVars, gt, ds, rq, cc, ac, rt>>

\* client.SetHTTPClient(sess.Config.HTTPClient); client.Session = sess; ...
CP_SetClient ==
    /\ cp.pc = "client"
    /\ cp' = [cp EXCEPT !.pc = "packages",
                        !.trace = Append(cp.trace, [ev |-> "SetHTTPClient",
                                                    sessionNil |-> (cp.Session = Nil)]),
                        !.Session = SessionOf(cp.calls)]
    /\ UNCHANGED <<tagVars, gt, ds, rq, cc, ac, rt>>

\* One turn of the loop over client.ServicePackages, in map order.
CP_ConfigurePackage ==
    /\ cp.pc = "packages"
    /\ \E spName \in cp.ServicePackages \ ConfiguredIn(cp.trace) :
          cp' = [cp EXCEPT !.trace =
                    Append(cp.trace, [ev |-> "Configure", sp |-> spName,
                                      m |-> ConfigureInput(spName, cp.config, cp.Session)])]
    /\ UNCHANGED <<tagVars, gt, ds, rq, cc, ac, rt>>

\* The loop is over: c.sdkv1Conns, c.sdkv2Conns, c.sdkv2LazyConns.
CP_BuildConns ==
    /\ cp.pc = "packages"
    /\ cp.ServicePackages \ ConfiguredIn(cp.trace) = {}
    /\ cp' = [cp EXCEPT !.pc = "customize",
                        !.trace = cp.trace \o << [ev |-> "sdkv1Conns"], [ev |-> "sdkv2Conns"],
                                                 [ev |-> "sdkv2LazyConns"] >>]
    /\ UNCHANGED <<tagVars, gt, ds, rq, cc, ac, rt>>

\* "Customize": the retry handlers are pushed, and the client is returned.
CP_Customize ==
    /\ cp.pc = "customize"
    /\ cp' = [cp EXCEPT !.pc = "returned",
                        !.trace = Append(cp.trace, [ev |-> "PushBack",
                                                    clients |-> RetryHandlerOrder])]
    /\ UNCHANGED <<tagVars, gt, ds, rq, cc, ac, rt>>

\* The caller has the result and may configure the same client again.
CP_Return ==
    /\ cp.pc = "returned"
    /\ cp.calls < MaxConfigureCalls
    /\ cp' = [cp EXCEPT !.pc = "idle"]
    /\ UNCHANGED <<tagVars, gt, ds, rq, cc, ac, rt>>

ConfigureNext ==
    \/ CP_Begin
    \/ CP_SetClient
    \/ CP_ConfigurePackage
    \/ CP_BuildConns
    \/ CP_Customize
    \/ CP_Return

\* A new client with any registered service packages; nothing else is in use.
InitConfigure ==
    /\ remote = EmptyTags
    /\ pc = "idle"
    /\ oldTags = EmptyTags
    /\ newTags = EmptyTags
    /\ requests = <<>>
    /\ err = Nil
    /\ calls = 0
    /\ inSync = FALSE
    /\ chained = FALSE
    /\ gt = [pc |-> "idle"]
    /\ ds = [pc |-> "idle"]
    /\ rq = [pc |-> "idle"]
    /\ \E sps \in SUBSET PackageNames :
          cp = [pc |-> "idle", Session |-> Nil, calls |-> 0, ServicePackages |-> sps,
                diags |-> "", trace |-> <<>>, config |-> Nil]
    /\ cc = [pc |-> "idle"]
    /\ ac = [pc |-> "idle"]
    /\ rt = [pc |-> "idle"]

SpecConfigure == InitConfigure /\ [][ConfigureNext]_vars

\* The positions of the trace that hold an event of the kind.
EventsOf(trace, kind) == { i \in DOMAIN trace : trace[i].ev = kind }

\* C12 as stated: at every SetHTTPClient call client.Session is nil, in the first
\* ConfigureProvider call on a client and in every later one.
C12_SessionNilAtSetHTTPClient ==
    \A i \in EventsOf(cp.trace, "SetHTTPClient") : cp.trace[i].sessionNil

\* C13: when ConfigureProvider returns without error it has configured every
\* registered service package exactly once, before building any API client and
\* before pushing any retry handler, with the endpoint of the package's own
\* name, s3_use_path_style for S3 alone and sts_region for STS alone.
C13_ServicePackagesConfigured ==
    (cp.pc = "returned" /\ cp.diags = "") =>
        LET t == cp.trace
            conf == EventsOf(t, "Configure")
            later == EventsOf(t, "sdkv1Conns") \cup EventsOf(t, "sdkv2Conns")
                        \cup EventsOf(t, "sdkv2LazyConns") \cup EventsOf(t, "PushBack")
        IN  /\ \A sp \in cp.ServicePackages :
                  Cardinality({ i \in conf : t[i].sp = sp }) = 1
            /\ \A i \in conf : t[i].sp \in cp.ServicePackages
            /\ later # {}
            /\ \A i \in conf, j \in later : i < j
            /\ \A i \in conf :
                  /\ t[i].m["endpoint"] = cp.config.Endpoints[t[i].sp]
                  /\ ("s3_use_path_style" \in DOMAIN t[i].m) <=> (t[i].sp = "s3")
                  /\ ("sts_region" \in DOMAIN t[i].m) <=> (t[i].sp = "sts")
                  /\ t[i].sp = "s3" => t[i].m["s3_use_path_style"] = cp.config.S3UsePathStyle
                  /\ t[i].sp = "sts" => t[i].m["sts_region"] = cp.config.STSRegion

\* A successful call with three packages, one of them with an endpoint override
\* and the others without.
C13_Witness ==
    /\ cp.pc = "returned" /\ cp.diags = ""
    /\ cp.ServicePackages = PackageNames
    /\ Cardinality(EventsOf(cp.trace, "Configure")) = 3
    /\ cp.config.Endpoints["ecs"] = CustomEndpoint("ecs")
    /\ cp.config.Endpoints["s3"] = NoEndpoint
    /\ cp.config.STSRegion = "us-gov-west-1"

\* ------------------------------------------------------------------------
\* apigateway: aws_api_gateway_client_certificate
\* ------------------------------------------------------------------------
\* Number of Create/Read/Update/Delete calls in one run.
MaxCertificateCalls == 3

CertificateIDs == { "cert-a", "cert-b" }

\* What the resource data holds of a certificate.
Descriptions == { "", "gateway" }
PemCertificates == { "pem-1", "pem-2" }
ClientCertificates == [Description : Descriptions, PemEncodedCertificate : PemCertificates]

NoDiags == [severity |-> "none"]

\* sdkdiag.AppendErrorf(diags, format, ...)
AppendErrorf(summary, id, cause) ==
    [severity |-> "error", summary |-> summary, id |-> id, cause |-> cause]

\* Errors of the API other than NotFoundException.
CertificateApiErrors == { "UnauthorizedException", "TooManyRequestsException" }

\* What GetClientCertificate answers: NotFoundException, another error, no
\* error and no output, or a certificate.
GetClientCertificateResults ==
    { [kind |-> "NotFoundException"], [kind |-> "nilOutput"] }
    \cup { [kind |-> "error", code |-> c] : c \in CertificateApiErrors }
    \cup { [kind |-> "ok", output |-> c] : c \in ClientCertificates }

\* tfresource.NotFound: a retry.NotFoundError, which an empty-result error is too.
tfresource_NotFound(e) == e.what \in { "retry.NotFoundError", "tfresource.EmptyResultError" }

\* A finder that hands the API's NotFoundException on as it is.
FindClientCertificateByID_NoWrap(res) ==
    CASE res.kind = "NotFoundException" ->
            [output |-> Nil, err |-> AwsErr("NotFoundException", <<>>)]
      [] res.kind = "error" -> [output |-> Nil, err |-> AwsErr(res.code, <<>>)]
      [] res.kind = "nilOutput" ->
            [output |-> Nil, err |-> [what |-> "tfresource.EmptyResultError"]]
      [] OTHER -> [output |-> res.output, err |-> Nil]

FindClientCertificateByID(res) ==
    CASE res.kind = "NotFoundException" ->
            [output |-> Nil,
             err |-> [what |-> "retry.NotFoundError",
                      LastError |-> AwsErr("NotFoundException", <<>>)]]
      [] res.kind = "error" -> [output |-> Nil, err |-> AwsErr(res.code, <<>>)]
      [] res.kind = "nilOutput" ->
            [output |-> Nil, err |-> [what |-> "tfresource.EmptyResultError"]]
      [] OTHER -> [output |-> res.output, err |-> Nil]

\* resourceClientCertificateRead on resource data d (id, isNew, attrs) with the
\* answer res of the API: the resource data and the diagnostics it leaves.
resourceClientCertificateRead(d, res) ==
    LET found == FindClientCertificateByID(res)
    IN  IF ~d.isNew /\ tfresource_NotFound(found.err)
        THEN [id |-> "", attrs |-> d.attrs, diags |-> NoDiags]
        ELSE IF found.err # Nil
        THEN [id |-> d.id, attrs |-> d.attrs,
              diags |-> AppendErrorf("reading API Gateway Client Certificate", d.id, found.err)]
        ELSE [id |-> d.id,
              attrs |-> [arn |-> <<"/clientcertificates/", d.id>>,
                         description |-> found.output.Description,
                         pem_encoded_certificate |-> found.output.PemEncodedCertificate],
              diags |-> NoDiags]

NoAttrs == [arn |-> <<>>, description |-> "", pem_encoded_certificate |-> ""]

\* The record of one handler call: its name, whether the read ran and on what.
CertificateCall(op, isNew, readRan, idAtRead, res, out) ==
    [pc |-> "returned", n |-> cc.n + 1, op |-> op, isNew |-> isNew, readRan |-> readRan,
     idAtRead |-> idAtRead, res |-> res, id |-> out.id, attrs |-> out.attrs,
     diags |-> out.diags]

\* resourceClientCertificateCreate: the resource is new while it runs.
Certificate_Create ==
    /\ cc.pc = "idle" /\ cc.id = "" /\ cc.n < MaxCertificateCalls
    /\ \/ \E code \in CertificateApiErrors :
             cc' = CertificateCall("Create", TRUE, FALSE, "", Nil,
                      [id |-> "", attrs |-> cc.attrs,
                       diags |-> AppendErrorf("creating API Gateway Client Certificate", "",
                                              AwsErr(code, <<>>))])
       \/ \E id \in CertificateIDs, res \in GetClientCertificateResults :
             cc' = CertificateCall("Create", TRUE, TRUE, id, res,
                      resourceClientCertificateRead(
                          [id |-> id, isNew |-> TRUE, attrs |-> cc.attrs], res))
    /\ UNCHANGED <<tagVars, gt, ds, rq, cp, ac, rt>>

\* resourceClientCertificateRead as the refresh of a resource in the state.
Certificate_Read ==
    /\ cc.pc = "idle" /\ cc.id # "" /\ cc.n < MaxCertificateCalls
    /\ \E res \in GetClientCertificateResults :
          cc' = CertificateCall("Read", FALSE, TRUE, cc.id, res,
                   resourceClientCertificateRead(
                       [id |-> cc.id, isNew |-> FALSE, attrs |-> cc.attrs], res))
    /\ UNCHANGED <<tagVars, gt, ds, rq, cp, ac, rt>>

\* resourceClientCertificateUpdate: an update of the description when something
\* but the tags changed, then the read.
Certificate_Update ==
    /\ cc.pc = "idle" /\ cc.id # "" /\ cc.n < MaxCertificateCalls
    /\ \/ \E code \in CertificateApiErrors :
             cc' = CertificateCall("Update", FALSE, FALSE, "", Nil,
                      [id |-> cc.id, attrs |-> cc.attrs,
                       diags |-> AppendErrorf("updating API Gateway Client Certificate", cc.id,
                                              AwsErr(code, <<>>))])
       \/ \E res \in GetClientCertificateResults :
             cc' = CertificateCall("Update", FALSE, TRUE, cc.id, res,
                      resourceClientCertificateRead(
                          [id |-> cc.id, isNew |-> FALSE, attrs |-> cc.attrs], res))
    /\ UNCHANGED <<tagVars, gt, ds, rq, cp, ac, rt>>

\* resourceClientCertificateDelete: the caller drops the resource on success.
Certificate_Delete ==
    /\ cc.pc = "idle" /\ cc.id # "" /\ cc.n < MaxCertificateCalls
    /\ \/ \E code \in CertificateApiErrors :
             cc' = CertificateCall("Delete", FALSE, FALSE, "", Nil,
                      [id |-> cc.id, attrs |-> cc.attrs,
                       diags |-> AppendErrorf("deleting API Gateway Client Certificate", cc.id,
                                              AwsErr(code, <<>>))])
       \/ cc' = CertificateCall("Delete", FALSE, FALSE, "", Nil,
                      [id |-> "", attrs |-> cc.attrs, diags |-> NoDiags])
    /\ UNCHANGED <<tagVars, gt, ds, rq, cp, ac, rt>>

\* The caller has the diagnostics; a resource without ID leaves the state.
Certificate_Return ==
    /\ cc.pc = "returned"
    /\ cc.n < MaxCertificateCalls
    /\ cc' = [pc |-> "idle", n |-> cc.n, id |-> cc.id,
              attrs |-> IF cc.id = "" THEN NoAttrs ELSE cc.attrs]
    /\ UNCHANGED <<tagVars, gt, ds, rq, cp, ac, rt>>

CertificateNext ==
    \/ Certificate_Create
    \/ Certificate_Read
    \/ Certificate_Update
    \/ Certificate_Delete
    \/ Certificate_Return

\* No certificate yet, or one of an earlier run in the state.
InitCertificate ==
    /\ remote = EmptyTags
    /\ pc = "idle"
    /\ oldTags = EmptyTags
    /\ newTags = EmptyTags
    /\ requests = <<>>
    /\ err = Nil
    /\ calls = 0
    /\ inSync = FALSE
    /\ chained = FALSE
    /\ gt = [pc |-> "idle"]
    /\ ds = [pc |-> "idle"]
    /\ rq = [pc |-> "idle"]
    /\ cp = [pc |-> "idle", Session |-> Nil, calls |-> 0]
    /\ \E id \in CertificateIDs \cup { "" } :
          cc = [pc |-> "idle", n |-> 0, id |-> id, attrs |-> NoAttrs]
    /\ ac = [pc |-> "idle"]
    /\ rt = [pc |-> "idle"]

SpecCertificate == InitCertificate /\ [][CertificateNext]_vars

\* The certificate is not there: NotFoundException, or an answer without one.
NotFoundRemotely(res) == res.kind \in { "NotFoundException", "nilOutput" }

\* C15: after a Read that did not find the certificate, a resource that is not
\* new has no ID and no error; a new resource, and any resource whose lookup
\* failed otherwise, has an error diagnostic and the ID it had.
C15_ReadNotFound ==
    (cc.pc = "returned" /\ cc.readRan) =>
        /\ (NotFoundRemotely(cc.res) /\ ~cc.isNew) => (cc.id = "" /\ cc.diags = NoDiags)
        /\ ((NotFoundRemotely(cc.res) /\ cc.isNew) \/ cc.res.kind = "error")
              => /\ cc.diags.severity = "error"
                 /\ cc.id = cc.idAtRead
                 /\ cc.id # ""

\* A refresh has found the certificate gone and has cleared the ID.
C15_Witness ==
    /\ cc.pc = "returned" /\ cc.op = "Read" /\ cc.readRan
    /\ cc.res.kind = "NotFoundException"
    /\ ~cc.isNew
    /\ cc.idAtRead = "cert-a"
    /\ cc.id = ""

\* ------------------------------------------------------------------------
\* apigateway: aws_api_gateway_account
\* ------------------------------------------------------------------------
\* Number of handler calls on the account resource in one run.
MaxAccountCalls == 2

\* The propagation timeout, in steps of the retry clock.
PropagationTimeout == 3

AccountID == "api-gateway-account"

TxtRolePermissions == <<"The role ARN does not have required permissions">>
TxtCloudWatchWrite ==
    <<"API Gateway could not successfully write to CloudWatch Logs using the ARN specified">>

\* errs.IsAErrorMessageContains[T]: the error is of the type and its message
\* contains the text. False for nil.
IsAErrorMessageContains(e, type, text) ==
    e # Nil /\ e.what = "awserr" /\ e.code = type /\ Contains(e.message, text)

\* What UpdateAccount answers: success, or an error of either type with either
\* of the two messages or another one.
UpdateAccountErrors ==
    { AwsErr(code, Sentence(text)) :
        code \in { "BadRequestException", "TooManyRequestsException" },
        text \in { TxtRolePermissions, TxtCloudWatchWrite, Unrelated } }

\* A predicate that asks for another attempt after any BadRequestException.
AccountRetryable_AnyBadRequest(e) == e # Nil /\ e.what = "awserr" /\ e.code = "BadRequestException"

\* The second function handed to tfresource.RetryWhen.
AccountRetryable(e) ==
    IF IsAErrorMessageContains(e, "BadRequestException", TxtRolePermissions)
    THEN TRUE
    ELSE IF IsAErrorMessageContains(e, "BadRequestException", TxtCloudWatchWrite)
    THEN TRUE
    ELSE FALSE

\* The error of the last attempt so far, nil before the first.
LastError(attempts) == IF Len(attempts) = 0 THEN Nil ELSE attempts[Len(attempts)].err

\* resourceAccountUpdate is entered, as Create of a resource without ID or as
\* Update of one in the state; the patch operation is built.
Account_Update_Call ==
    /\ ac.pc = "idle" /\ ac.n < MaxAccountCalls
    /\ \E arn \in { "", "arn:role" } :
          ac' = [pc |-> "attempt", n |-> ac.n + 1, op |-> "Update", id |-> ac.id,
                 idBefore |-> ac.id, isNew |-> (ac.id = ""),
                 patch |-> [Op |-> "replace", Path |-> "/cloudwatchRoleArn", Value |-> arn],
                 attempts |-> <<>>, elapsed |-> 0, setIdCalled |-> FALSE,
                 readRan |-> FALSE, diags |-> NoDiags]
    /\ UNCHANGED <<tagVars, gt, ds, rq, cp, cc, rt>>

\* tfresource.RetryWhen: one call of conn.UpdateAccount and of the predicate.
Account_Attempt ==
    /\ ac.pc = "attempt"
    /\ \E e \in UpdateAccountErrors \cup { Nil } :
          ac' = [ac EXCEPT !.attempts = Append(ac.attempts, [at |-> ac.elapsed, err |-> e]),
                           !.pc = IF e = Nil THEN "updated"
                                  ELSE IF AccountRetryable(e) THEN "backoff"
                                  ELSE "failed"]
    /\ UNCHANGED <<tagVars, gt, ds, rq, cp, cc, rt>>

\* tfresource.RetryWhen: the wait before the next attempt; when the timeout
\* has elapsed the last error is the result.
Account_Backoff ==
    /\ ac.pc = "backoff"
    /\ \E wait \in 1 .. PropagationTimeout :
          /\ ac.elapsed + wait <= PropagationTimeout
          /\ ac' = [ac EXCEPT !.elapsed = ac.elapsed + wait,
                              !.pc = IF ac.elapsed + wait >= PropagationTimeout
                                     THEN "failed" ELSE "attempt"]
    /\ UNCHANGED <<tagVars, gt, ds, rq, cp, cc, rt>>

\* if err != nil { return sdkdiag.AppendErrorf(...) }
Account_Update_Failed ==
    /\ ac.pc = "failed"
    /\ ac' = [ac EXCEPT !.pc = "returned",
                        !.diags = AppendErrorf("updating API Gateway Account", ac.id,
                                               LastError(ac.attempts))]
    /\ UNCHANGED <<tagVars, gt, ds, rq, cp, cc, rt>>

\* if d.IsNewResource() { d.SetId(...) }; return append(diags, resourceAccountRead(...)...)
Account_Update_Read ==
    /\ ac.pc = "updated"
    /\ \E readFails \in BOOLEAN :
          ac' = [ac EXCEPT !.pc = "returned",
                           !.id = IF ac.isNew THEN AccountID ELSE ac.id,
                           !.setIdCalled = ac.isNew,
                           !.readRan = TRUE,
                           !.diags = IF readFails
                                     THEN AppendErrorf("reading API Gateway Account", "",
                                                       AwsErr("TooManyRequestsException",
                                                              Sentence(Unrelated)))
                                     ELSE NoDiags]
    /\ UNCHANGED <<tagVars, gt, ds, rq, cp, cc, rt>>

\* resourceAccountRead as the refresh of the resource in the state.
Account_Read ==
    /\ ac.pc = "idle" /\ ac.n < MaxAccountCalls /\ ac.id # ""
    /\ \E readFails \in BOOLEAN :
          ac' = [pc |-> "returned", n |-> ac.n + 1, op |-> "Read", id |-> ac.id,
                 idBefore |-> ac.id, isNew |-> FALSE, patch |-> Nil,
                 attempts |-> <<>>, elapsed |-> 0, setIdCalled |-> FALSE,
                 readRan |-> TRUE,
                 diags |-> IF readFails
                           THEN AppendErrorf("reading API Gateway Account", "",
                                             AwsErr("TooManyRequestsException",
                                                    Sentence(Unrelated)))
                           ELSE NoDiags]
    /\ UNCHANGED <<tagVars, gt, ds, rq, cp, cc, rt>>

\* The caller has the diagnostics and may call again.
Account_Return ==
    /\ ac.pc = "returned"
    /\ ac.n < MaxAccountCalls
    /\ ac' = [pc |-> "idle", n |-> ac.n, id |-> ac.id]
    /\ UNCHANGED <<tagVars, gt, ds, rq, cp, cc, rt>>

AccountNext ==
    \/ Account_Update_Call
    \/ Account_Attempt
    \/ Account_Backoff
    \/ Account_Update_Failed
    \/ Account_Update_Read
    \/ Account_Read
    \/ Account_Return

\* The account resource is not in the state, or is in it from an earlier run.
InitAccount ==
    /\ remote = EmptyTags
    /\ pc = "idle"
    /\ oldTags = EmptyTags
    /\ newTags = EmptyTags
    /\ requests = <<>>
    /\ err = Nil
    /\ calls = 0
    /\ inSync = FALSE
    /\ chained = FALSE
    /\ gt = [pc |-> "idle"]
    /\ ds = [pc |-> "idle"]
    /\ rq = [pc |-> "idle"]
    /\ cp = [pc |-> "idle", Session |-> Nil, calls |-> 0]
    /\ cc = [pc |-> "idle"]
    /\ \E id \in { "", AccountID } : ac = [pc |-> "idle", n |-> 0, id |-> id]
    /\ rt = [pc |-> "idle"]

SpecAccount == InitAccount /\ [][AccountNext]_vars

\* A BadRequestException with one of the two messages on role permissions and
\* on writing to CloudWatch Logs.
RolePropagationError(e) ==
    /\ e # Nil
    /\ e.code = "BadRequestException"
    /\ Contains(e.message, TxtRolePermissions) \/ Contains(e.message, TxtCloudWatchWrite)

\* C16: an attempt of UpdateAccount is followed by another only when it failed
\* with one of the two role errors, and every attempt starts before the
\* propagation timeout has elapsed; any other error is the last attempt's; and
\* a resourceAccountUpdate that returns after a failed last attempt has an
\* error diagnostic, has not set the ID and has not read the account.
C16_AccountUpdateRetry ==
    (ac.pc # "idle" /\ ac.op = "Update") =>
        /\ \A i \in DOMAIN ac.attempts :
              /\ ac.attempts[i].at < PropagationTimeout
              /\ i < Len(ac.attempts) => RolePropagationError(ac.attempts[i].err)
              /\ (ac.attempts[i].err # Nil /\ ~RolePropagationError(ac.attempts[i].err))
                    => /\ i = Len(ac.attempts)
                       /\ ac.pc \in { "failed", "returned" }
        /\ (ac.pc = "returned" /\ LastError(ac.attempts) # Nil)
              => /\ ac.diags.severity = "error"
                 /\ ~ac.setIdCalled
                 /\ ac.id = ac.idBefore
                 /\ ~ac.readRan
        /\ (ac.pc = "returned" /\ ~RolePropagationError(LastError(ac.attempts))
              /\ LastError(ac.attempts) # Nil /\ Len(ac.attempts) = 1)
              => ac.diags.cause = ac.attempts[1].err

\* A create that was attempted twice and gave up on a role error when the
\* timeout had elapsed.
C16_Witness ==
    /\ ac.pc = "returned" /\ ac.op = "Update" /\ ac.isNew
    /\ Len(ac.attempts) = 2
    /\ RolePropagationError(ac.attempts[1].err)
    /\ RolePropagationError(ac.attempts[2].err)
    /\ ac.elapsed = PropagationTimeout
    /\ ac.id = ""

\* ------------------------------------------------------------------------
\* Tags and KeyValueTags, one after the other
\* ------------------------------------------------------------------------
\* Every tag set over TagKeys; a tag may be without a value, as the tags are
\* that KeyValueTags makes of a service tag that has none.
TagSets ==
    UNION { { f \in [D -> TagValues \cup { NilString }] :
                \A k \in D : f[k] \in ValuesOf(k) \cup { NilString } } : D \in SUBSET TagKeys }

\* Tags(t): the map iteration takes the keys in some order.
Convert_Tags ==
    /\ rt.pc = "input"
    /\ \E order \in Orderings(DOMAIN rt.t) :
          rt' = [rt EXCEPT !.pc = "tags", !.result = Tags(rt.t, order)]
    /\ UNCHANGED <<tagVars, gt, ds, rq, cp, cc, ac>>

\* KeyValueTags(Tags(t))
Convert_KeyValueTagsOfTags ==
    /\ rt.pc = "tags"
    /\ rt' = [rt EXCEPT !.pc = "roundtrip", !.back = KeyValueTags(rt.result)]
    /\ UNCHANGED <<tagVars, gt, ds, rq, cp, cc, ac>>

\* KeyValueTags(list) of a list a service sent.
Convert_KeyValueTags ==
    /\ rt.pc = "input"
    /\ rt' = [rt EXCEPT !.pc = "converted", !.back = KeyValueTags(rt.list)]
    /\ UNCHANGED <<tagVars, gt, ds, rq, cp, cc, ac>>

ConvertNext ==
    \/ Convert_Tags
    \/ Convert_KeyValueTagsOfTags
    \/ Convert_KeyValueTags

\* Any tag set and any service tag list are at hand.
InitConvert ==
    /\ remote = EmptyTags
    /\ pc = "idle"
    /\ oldTags = EmptyTags
    /\ newTags = EmptyTags
    /\ requests = <<>>
    /\ err = Nil
    /\ calls = 0
    /\ inSync = FALSE
    /\ chained = FALSE
    /\ gt = [pc |-> "idle"]
    /\ ds = [pc |-> "idle"]
    /\ rq = [pc |-> "idle"]
    /\ cp = [pc |-> "idle", Session |-> Nil, calls |-> 0]
    /\ cc = [pc |-> "idle"]
    /\ ac = [pc |-> "idle"]
    /\ \E t \in TagSets, list \in TagLists :
          rt = [pc |-> "input", t |-> t, list |-> list, result |-> <<>>, back |-> EmptyTags]

SpecConvert == InitConvert /\ [][ConvertNext]_vars

\* Tags(t) has one entry per key of t.
OneEntryPerKey(list, t) ==
    /\ Len(list) = Cardinality(DOMAIN t)
    /\ \A k \in DOMAIN t : Cardinality(Occurrences(list, k)) = 1

\* KeyValueTags(list) has the keys of the list, each with the value of its
\* last occurrence.
LastOccurrenceKept(list, back) ==
    /\ DOMAIN back = { list[i].Key : i \in DOMAIN list }
    /\ \A k \in DOMAIN back :
          \E i \in Occurrences(list, k) :
              /\ \A j \in Occurrences(list, k) : j <= i
              /\ back[k] = list[i].Value

\* C17 as stated: the round trip gives back every tag set, with one entry per
\* key in between, and a list with a repeated key keeps the last value.
C17_AsStated ==
    /\ rt.pc \in { "tags", "roundtrip" } => OneEntryPerKey(rt.result, rt.t)
    /\ rt.pc = "roundtrip" => rt.back = rt.t
    /\ rt.pc = "converted" => LastOccurrenceKept(rt.list, rt.back)

\* Every tag of the set has a value.
AllValued(t) == \A k \in DOMAIN t : t[k] # NilString

\* C17: the round trip gives back every tag set whose tags all have a value;
\* Tags(t) has one entry per key of any t; and a list with a repeated key keeps
\* the value of the last occurrence.
C17_RoundTrip ==
    /\ rt.pc \in { "tags", "roundtrip" } => OneEntryPerKey(rt.result, rt.t)
    /\ (rt.pc = "roundtrip" /\ AllValued(rt.t)) => rt.back = rt.t
    /\ rt.pc = "converted" => LastOccurrenceKept(rt.list, rt.back)

\* A set of three tags with values has made the round trip.
C17_Witness ==
    /\ rt.pc = "roundtrip"
    /\ DOMAIN rt.t = TagKeys
    /\ AllValued(rt.t)
    /\ rt.t[<<"Name">>] # rt.t[<<"Env">>]
    /\ rt.back = rt.t

\* ------------------------------------------------------------------------
\* Properties of UpdateTags
\* ------------------------------------------------------------------------
\* C1: tag convergence. For old and new maps without an aws:-prefixed key, when
\* the remote tags equalled old at the call and UpdateTags returned nil (every
\* request it sent succeeded), the remote tags equal new: same keys, same values.
C1_TagConvergence ==
    (pc = "done" /\ err = Nil /\ inSync /\ NoAWSKey(oldTags) /\ NoAWSKey(newTags))
        => /\ DOMAIN remote = DOMAIN newTags
           /\ \A k \in DOMAIN newTags : remote[k] = newTags[k]

\* A call that removed a tag, changed or added another, and returned nil.
C1_Witness ==
    /\ pc = "done" /\ err = Nil /\ inSync
    /\ NoAWSKey(oldTags) /\ NoAWSKey(newTags)
    /\ Len(requests) = 2
    /\ requests[1].op = "UntagResource" /\ requests[2].op = "TagResource"
    /\ \E k \in DOMAIN oldTags \cap DOMAIN newTags : oldTags[k] # newTags[k]

\* C2: equal old and new maps cause no remote call: the call sends neither an
\* untag nor a tag request and returns nil. This covers the call
\* UpdateTags(new, new) that follows a call UpdateTags(old, new).
C2_NoRequestWhenUnchanged ==
    (pc # "idle" /\ DOMAIN oldTags = DOMAIN newTags
                /\ \A k \in DOMAIN oldTags : oldTags[k] = newTags[k])
        => (requests = <<>> /\ err = Nil)

\* The second call of a run, made with the map the first call applied, has returned.
C2_Witness ==
    /\ pc = "done" /\ calls = 2 /\ chained
    /\ oldTags = newTags /\ DOMAIN newTags # {}
    /\ requests = <<>> /\ err = Nil


\* The positions of the request log that hold a request of the operation.
RequestsOf(op) == { i \in DOMAIN requests : requests[i].op = op }

\* C14: the untag request precedes the tag request; with removals and updates
\* and no failure both are sent, in that order; once the untag request has
\* failed no tag request is sent and the error returned wraps the cause and
\* names the identifier.
C14_UntagBeforeTagOrAbort ==
    /\ \A i \in RequestsOf("UntagResource"), j \in RequestsOf("TagResource") : i < j
    /\ (/\ pc = "done" /\ err = Nil
        /\ Cardinality(DOMAIN RemovedTags) > 0
        /\ Cardinality(DOMAIN UpdatedTags) > 0)
          => /\ Len(requests) = 2
             /\ requests[1].op = "UntagResource"
             /\ requests[2].op = "TagResource"
    /\ err.what = "untagging resource"
          => /\ pc \in { "done", "idle" }
             /\ RequestsOf("TagResource") = {}
             /\ err.identifier = Identifier
             /\ err.wraps \in ApiErrors
             /\ pc = "done" => requests = << UntagInput >>

\* The untag request has failed in a call that also had tags to update.
C14_Witness ==
    /\ pc = "done"
    /\ err.what = "untagging resource"
    /\ Cardinality(DOMAIN RemovedTags) > 0
    /\ Cardinality(DOMAIN UpdatedTags) > 0
    /\ requests = << UntagInput >>

====
